---- MODULE Spec2Model ----
(***************************************************************************)
(* A model of the sidecar agent's name-plane and control-plane core:       *)
(*   - pilot/pkg/dns/dns.go      : LocalDNSServer, LookupTable             *)
(*   - pkg/istio-agent/xds_proxy.go : XdsProxy, ProxyConnection            *)
(* Go strings are sequences of one-character strings, so that suffix       *)
(* tests, splitting, joining and lower-casing are computed, not assumed.   *)
(***************************************************************************)
EXTENDS Integers, Sequences, FiniteSets, TLC

(***************************************************************************)
(* Bounds of the model.                                                    *)
(***************************************************************************)
\* name-table entries per pushed name table
MaxEntries == 2
\* UpdateLookupTable calls explored by the DNS specification
MaxUpdates == 2

(***************************************************************************)
(* Go string helpers (package strings).                                    *)
(***************************************************************************)
Dot == <<".">>

UpperToLower ==
  [A |-> "a", B |-> "b", C |-> "c", D |-> "d", E |-> "e", F |-> "f", G |-> "g",
   H |-> "h", I |-> "i", J |-> "j", K |-> "k", L |-> "l", M |-> "m", N |-> "n",
   O |-> "o", P |-> "p", Q |-> "q", R |-> "r", S |-> "s", T |-> "t", U |-> "u",
   V |-> "v", W |-> "w", X |-> "x", Y |-> "y", Z |-> "z"]

ToLower(s) ==
  [i \in DOMAIN s |-> IF s[i] \in DOMAIN UpperToLower THEN UpperToLower[s[i]] ELSE s[i]]

HasSuffix(s, suffix) ==
  /\ Len(suffix) <= Len(s)
  /\ SubSeq(s, Len(s) - Len(suffix) + 1, Len(s)) = suffix

RECURSIVE SplitFrom(_, _, _, _)
SplitFrom(s, i, cur, acc) ==
  IF i > Len(s) THEN Append(acc, cur)
  ELSE IF s[i] = "." THEN SplitFrom(s, i + 1, <<>>, Append(acc, cur))
  ELSE SplitFrom(s, i + 1, Append(cur, s[i]), acc)

\* strings.Split(s, "."): "" splits into one empty part
Split(s) == SplitFrom(s, 1, <<>>, <<>>)

RECURSIVE Join(_)
\* strings.Join(parts, ".")
Join(parts) ==
  IF Len(parts) = 0 THEN <<>>
  ELSE IF Len(parts) = 1 THEN parts[1]
  ELSE parts[1] \o Dot \o Join(Tail(parts))

(***************************************************************************)
(* Go map helpers: a map is a function with a finite domain; a missing key *)
(* reads as the zero value (a nil slice).                                  *)
(***************************************************************************)
EmptyMap == [x \in {} |-> <<>>]

MapGet(m, k) == IF k \in DOMAIN m THEN m[k] ELSE <<>>

(***************************************************************************)
(* net.ParseIP / IP.To4 on the address strings the model pushes.  A parsed *)
(* address is its 16-byte form; To4 gives the 4-byte form of an IPv4 or    *)
(* IPv4-mapped address and nil otherwise.                                  *)
(***************************************************************************)
NilIP == "nil"

ParseIP(s) ==
  CASE s = "10.0.0.1" -> "::ffff:10.0.0.1"
    [] s = "10.0.0.2" -> "::ffff:10.0.0.2"
    [] s = "::ffff:10.0.0.2" -> "::ffff:10.0.0.2"
    [] s = "::1" -> "::1"
    [] OTHER -> NilIP

To4(addr) ==
  CASE addr = "::ffff:10.0.0.1" -> "10.0.0.1"
    [] addr = "::ffff:10.0.0.2" -> "10.0.0.2"
    [] OTHER -> NilIP

(***************************************************************************)
(* DNS constants (github.com/miekg/dns) and resource records.              *)
(***************************************************************************)
TypeA == "A"
TypeAAAA == "AAAA"
TypeCNAME == "CNAME"
TypePTR == "PTR"
ClassINET == "IN"
RcodeSuccess == 0
RcodeNameError == 3
RcodeServerFailure == 2

defaultTTLInSeconds == 30

RR_Header(name, rrtype) ==
  [Name |-> name, Rrtype |-> rrtype, Class |-> ClassINET, Ttl |-> defaultTTLInSeconds]

\* a(host, ips): one A record per address, in order
a(host, ips) == [i \in DOMAIN ips |-> [Hdr |-> RR_Header(host, TypeA), A |-> ips[i]]]

\* aaaa(host, ips): one AAAA record per address, in order
aaaa(host, ips) == [i \in DOMAIN ips |-> [Hdr |-> RR_Header(host, TypeAAAA), AAAA |-> ips[i]]]

\* cname(host, targetHost): a one-record slice
cname(host, targetHost) == << [Hdr |-> RR_Header(host, TypeCNAME), Target |-> targetHost] >>

(***************************************************************************)
(* The lookup table and its builder.                                       *)
(***************************************************************************)
EmptyLookupTable ==
  [allHosts |-> {}, name4 |-> EmptyMap, name6 |-> EmptyMap, cname |-> EmptyMap]

RECURSIVE separateIPtypesFrom(_, _, _, _)
separateIPtypesFrom(ips, i, ipv4, ipv6) ==
  IF i > Len(ips) THEN [ipv4 |-> ipv4, ipv6 |-> ipv6]
  ELSE LET addr == ParseIP(ips[i]) IN
       IF addr = NilIP THEN separateIPtypesFrom(ips, i + 1, ipv4, ipv6)
       ELSE IF To4(addr) # NilIP
            THEN separateIPtypesFrom(ips, i + 1, Append(ipv4, To4(addr)), ipv6)
            ELSE separateIPtypesFrom(ips, i + 1, ipv4, Append(ipv6, addr))

\* a split that stops at the first malformed address instead of skipping it
separateIPtypesUntilMalformed(ips) ==
  LET bad == {i \in DOMAIN ips : ParseIP(ips[i]) = NilIP}
      stop == IF bad = {} THEN Len(ips) + 1 ELSE CHOOSE i \in bad : \A j \in bad : i <= j
  IN separateIPtypesFrom(SubSeq(ips, 1, stop - 1), 1, <<>>, <<>>)

separateIPtypes(ips) == separateIPtypesFrom(ips, 1, <<>>, <<>>)

\* a derivation that adds the short name whatever the entry's namespace
generateAltHostsAnyNS(hostname, nameinfo, proxyNamespace, proxyDomain, proxyDomainParts) ==
  LET out0 == {hostname \o Dot} IN
  IF proxyDomain = <<>> \/ ~HasSuffix(hostname, proxyDomain) THEN out0
  ELSE out0
       \cup {nameinfo.Shortname \o Dot \o nameinfo.Namespace \o Dot}
       \cup {nameinfo.Shortname \o Dot}
       \cup {nameinfo.Shortname \o Dot \o nameinfo.Namespace \o Dot
               \o proxyDomainParts[1] \o Dot}

generateAltHosts(hostname, nameinfo, proxyNamespace, proxyDomain, proxyDomainParts) ==
  LET out0 == {hostname \o Dot} IN
  IF proxyDomain = <<>> \/ ~HasSuffix(hostname, proxyDomain) THEN out0
  ELSE out0
       \cup {nameinfo.Shortname \o Dot \o nameinfo.Namespace \o Dot}
       \cup (IF proxyNamespace = nameinfo.Namespace
             THEN {nameinfo.Shortname \o Dot} ELSE {})
       \cup {nameinfo.Shortname \o Dot \o nameinfo.Namespace \o Dot
               \o proxyDomainParts[1] \o Dot}

\* an expansion with the last search namespace instead of the first
expandedHostLastSearch(h, searchNamespaces) ==
  h \o searchNamespaces[Len(searchNamespaces)] \o Dot

\* The expanded host of h for the first search namespace.
expandedHost(h, searchNamespaces) == h \o searchNamespaces[1] \o Dot

\* a builder that records the CNAME of an expanded host without adding the
\* expanded host to allHosts
buildDNSAnswersUnlisted(table, altHosts, ipv4, ipv6, searchNamespaces) ==
  LET expanded == IF Len(searchNamespaces) > 0
                  THEN {h \in altHosts : expandedHost(h, searchNamespaces) \notin altHosts}
                  ELSE {}
      owners == {expandedHost(h, searchNamespaces) : h \in expanded}
      target(e) == CHOOSE h \in expanded : expandedHost(h, searchNamespaces) = e
  IN [allHosts |-> table.allHosts \cup altHosts,
      name4 |-> IF Len(ipv4) > 0
                THEN [x \in DOMAIN table.name4 \cup altHosts |->
                        IF x \in altHosts THEN a(x, ipv4) ELSE table.name4[x]]
                ELSE table.name4,
      name6 |-> IF Len(ipv6) > 0
                THEN [x \in DOMAIN table.name6 \cup altHosts |->
                        IF x \in altHosts THEN aaaa(x, ipv6) ELSE table.name6[x]]
                ELSE table.name6,
      cname |-> [x \in DOMAIN table.cname \cup owners |->
                        IF x \in owners THEN cname(x, target(x)) ELSE table.cname[x]]]

\* buildDNSAnswers: the loop over altHosts writes name4/name6 under keys in
\* altHosts and cname under keys outside altHosts, each key once, so its
\* result does not depend on the order in which the map is ranged over.
buildDNSAnswers(table, altHosts, ipv4, ipv6, searchNamespaces) ==
  LET expanded == IF Len(searchNamespaces) > 0
                  THEN {h \in altHosts : expandedHost(h, searchNamespaces) \notin altHosts}
                  ELSE {}
      owners == {expandedHost(h, searchNamespaces) : h \in expanded}
      target(e) == CHOOSE h \in expanded : expandedHost(h, searchNamespaces) = e
  IN [allHosts |-> table.allHosts \cup altHosts \cup owners,
      name4 |-> IF Len(ipv4) > 0
                THEN [x \in DOMAIN table.name4 \cup altHosts |->
                        IF x \in altHosts THEN a(x, ipv4) ELSE table.name4[x]]
                ELSE table.name4,
      name6 |-> IF Len(ipv6) > 0
                THEN [x \in DOMAIN table.name6 \cup altHosts |->
                        IF x \in altHosts THEN aaaa(x, ipv6) ELSE table.name6[x]]
                ELSE table.name6,
      cname |-> [x \in DOMAIN table.cname \cup owners |->
                        IF x \in owners THEN cname(x, target(x)) ELSE table.cname[x]]]

\* One iteration of the loop of UpdateLookupTable, for the entry of host.
UpdateEntry(h, table, host, ni) ==
  LET altHosts == IF ni.Registry = "Kubernetes"
                  THEN generateAltHosts(host, ni, h.proxyNamespace, h.proxyDomain,
                                        h.proxyDomainParts)
                  ELSE {host \o Dot}
      ips == separateIPtypes(ni.Ips)
  IN IF Len(ips.ipv6) = 0 /\ Len(ips.ipv4) = 0 THEN table
     ELSE buildDNSAnswers(table, altHosts, ips.ipv4, ips.ipv6, h.searchNamespaces)

RECURSIVE BuiltTables(_, _, _, _)
\* Every table the loop of UpdateLookupTable can end with: Go ranges over the
\* name table in an unspecified order.
BuiltTables(h, table, nt, todo) ==
  IF todo = {} THEN {table}
  ELSE UNION {BuiltTables(h, UpdateEntry(h, table, host, nt[host]), nt, todo \ {host})
                : host \in todo}

\* a lookup that appends the address records before the CNAME record
lookupHostRecordsFirst(table, qtype, hostname) ==
  IF hostname \notin table.allHosts THEN [answers |-> <<>>, hostFound |-> FALSE]
  ELSE LET cn == MapGet(table.cname, hostname)
           target == IF Len(cn) > 0 THEN cn[1].Target ELSE hostname
       IN IF qtype \notin {TypeA, TypeAAAA} THEN [answers |-> <<>>, hostFound |-> FALSE]
          ELSE LET ipAnswers == IF qtype = TypeA THEN MapGet(table.name4, target)
                                ELSE MapGet(table.name6, target)
               IN [answers |-> IF Len(ipAnswers) > 0 THEN ipAnswers \o cn ELSE <<>>,
                   hostFound |-> TRUE]

\* lookupHost: <<answers, hostFound>>
lookupHost(table, qtype, hostname) ==
  IF hostname \notin table.allHosts THEN [answers |-> <<>>, hostFound |-> FALSE]
  ELSE LET cn == MapGet(table.cname, hostname)
           target == IF Len(cn) > 0 THEN cn[1].Target ELSE hostname
       IN IF qtype \notin {TypeA, TypeAAAA} THEN [answers |-> <<>>, hostFound |-> FALSE]
          ELSE LET ipAnswers == IF qtype = TypeA THEN MapGet(table.name4, target)
                                ELSE MapGet(table.name6, target)
               IN [answers |-> IF Len(ipAnswers) > 0 THEN cn \o ipAnswers ELSE <<>>,
                   hostFound |-> TRUE]

(***************************************************************************)
(* queryUpstream.  Exchange's result for each nameserver is an input:      *)
(* "err" (an error), "empty" (a reply without answers, carrying the        *)
(* server's rcode) or "answer" (a reply with an answer section).           *)
(***************************************************************************)
ExchangeOutcomes == {"err", "empty", "answer"}

SetReply(rcode) == [Rcode |-> rcode, Answer |-> <<>>, From |-> "agent"]

Exchange(upstream, outcome) ==
  CASE outcome = "answer" ->
         [err |-> FALSE,
          msg |-> [Rcode |-> RcodeSuccess, Answer |-> <<[Upstream |-> upstream]>>,
                   From |-> upstream]]
    [] outcome = "empty" ->
         [err |-> FALSE,
          msg |-> [Rcode |-> RcodeServerFailure, Answer |-> <<>>, From |-> upstream]]
    [] OTHER -> [err |-> TRUE, msg |-> SetReply(RcodeServerFailure)]

RECURSIVE queryUpstreamFrom(_, _, _, _)
queryUpstreamFrom(servers, outcomes, i, tried) ==
  IF i > Len(servers)
  THEN [response |-> SetReply(RcodeNameError), tried |-> tried]
  ELSE LET r == Exchange(servers[i], outcomes[i]) IN
       IF ~r.err /\ Len(r.msg.Answer) > 0
       THEN [response |-> r.msg, tried |-> Append(tried, servers[i])]
       ELSE queryUpstreamFrom(servers, outcomes, i + 1, Append(tried, servers[i]))

\* a resolver that walks the nameservers from the last to the first
queryUpstreamLastFirst(h, outcomes) ==
  LET n == Len(h.resolvConfServers)
  IN queryUpstreamFrom([i \in 1 .. n |-> h.resolvConfServers[n + 1 - i]],
                       [i \in 1 .. n |-> outcomes[n + 1 - i]], 1, <<>>)

\* queryUpstream: the reply, and the nameservers contacted in order
queryUpstream(h, outcomes) == queryUpstreamFrom(h.resolvConfServers, outcomes, 1, <<>>)

(***************************************************************************)
(* NewLocalDNSServer: the server's configuration from the proxy namespace, *)
(* the proxy domain and /etc/resolv.conf.                                  *)
(***************************************************************************)
NewLocalDNSServer(proxyNamespace, proxyDomain, dnsConfig) ==
  LET parts0 == Split(proxyDomain)
      parts == IF parts0[1] = proxyNamespace THEN Tail(parts0) ELSE parts0
  IN [proxyNamespace |-> proxyNamespace,
      proxyDomainParts |-> parts,
      proxyDomain |-> Join(parts),
      resolvConfServers |-> [i \in DOMAIN dnsConfig.Servers |-> dnsConfig.Servers[i] \o ":53"],
      searchNamespaces |-> dnsConfig.Search]

(***************************************************************************)
(* Inputs of the DNS specification.                                        *)
(***************************************************************************)
KubernetesRegistry == "Kubernetes"
ExternalRegistry == "External"

NameInfo(registry, shortname, namespace, ips) ==
  [Registry |-> registry, Shortname |-> shortname, Namespace |-> namespace, Ips |-> ips]

\* The entries name tables are drawn from, by host:
\*   a.n.s.c  a Kubernetes service in the proxy's namespace n
\*   a.m.s.c  a Kubernetes service in another namespace, dual stack
\*   A.x      an external host spelled with an upper-case letter, one bad IP
\*   b.x      an external host whose only IP is malformed
\*   b.s.c    an external host inside the proxy's domain
\*   b.n.s.d  a Kubernetes service of a cluster with another domain
\*   a        an external host whose search expansion is a.n.s.c
AllEntries ==
  [h \in {<<"a", ".", "n", ".", "s", ".", "c">>,
          <<"a", ".", "m", ".", "s", ".", "c">>,
          <<"A", ".", "x">>,
          <<"b", ".", "x">>,
          <<"b", ".", "s", ".", "c">>,
          <<"b", ".", "n", ".", "s", ".", "d">>,
          <<"a">>} |->
     CASE h = <<"a", ".", "n", ".", "s", ".", "c">> ->
            NameInfo(KubernetesRegistry, <<"a">>, <<"n">>, <<"10.0.0.1">>)
       [] h = <<"a", ".", "m", ".", "s", ".", "c">> ->
            NameInfo(KubernetesRegistry, <<"a">>, <<"m">>, <<"10.0.0.2", "::1">>)
       [] h = <<"A", ".", "x">> ->
            NameInfo(ExternalRegistry, <<>>, <<>>, <<"bad", "10.0.0.1">>)
       [] h = <<"b", ".", "x">> ->
            NameInfo(ExternalRegistry, <<>>, <<>>, <<"bad">>)
       [] h = <<"b", ".", "s", ".", "c">> ->
            NameInfo(ExternalRegistry, <<"b">>, <<"n">>, <<"10.0.0.1">>)
       [] h = <<"b", ".", "n", ".", "s", ".", "d">> ->
            NameInfo(KubernetesRegistry, <<"b">>, <<"n">>, <<"10.0.0.2">>)
       [] OTHER ->
            NameInfo(ExternalRegistry, <<>>, <<>>, <<"::ffff:10.0.0.2">>)]

NameTables ==
  {[h \in hs |-> AllEntries[h]] :
     hs \in {s \in SUBSET DOMAIN AllEntries : Cardinality(s) <= MaxEntries}}

ResolvConf ==
  [Servers |-> <<"ns1", "ns2">>,
   Search |-> << <<"n", ".", "s", ".", "c">>, <<"s", ".", "c">> >>]

ResolvConfNoSearch == [Servers |-> <<"ns1", "ns2">>, Search |-> <<>>]

\* The configurations explored: the usual in-cluster one, one whose proxy
\* domain repeats the namespace and has no search list, one without domain.
DNSServers ==
  {NewLocalDNSServer(<<"n">>, <<"s", ".", "c">>, ResolvConf),
   NewLocalDNSServer(<<"n">>, <<"n", ".", "s", ".", "c">>, ResolvConfNoSearch),
   NewLocalDNSServer(<<"n">>, <<>>, ResolvConf)}

QueryNames ==
  {<<"a", ".">>,
   <<"a", ".", "n", ".">>,
   <<"a", ".", "n", ".", "s", ".", "c", ".">>,
   <<"a", ".", "n", ".", "s", ".", "c", ".", "n", ".", "s", ".", "c", ".">>,
   <<"A", ".", "x", ".">>,
   <<"a", ".", "x", ".">>,
   <<"z", ".">>}

QueryTypes == {TypeA, TypeAAAA, TypePTR}

(***************************************************************************)
(* State.                                                                  *)
(***************************************************************************)
VARIABLES
  \* --- LocalDNSServer ---
  dns,            \* the LocalDNSServer's configuration, or NoDNS (p.localDNSServer == nil)
  heap,           \* the LookupTable objects allocated so far (Freed once unreferenced)
  lookupTable,    \* LocalDNSServer.lookupTable: 0 (nothing stored) or an index of heap
  published,      \* history: the indices stored into lookupTable, in order
  upd,            \* the UpdateLookupTable call in progress (DNS specification)
  qry,            \* the ServeDNS call in progress (DNS specification)
  \* --- XdsProxy ---
  connected,      \* XdsProxy.connected: 0 (nil) or a connection
  connectedMutex, \* XdsProxy.connectedMutex: the writer holding it and the reader count
  registered,     \* history: the connections assigned to connected, in order
  con,            \* per ProxyConnection: requestsChan, responsesChan, stopChan (closed?)
  handler,        \* per connection: StreamAggregatedResources / HandleUpstream
  downReader,     \* per connection: the goroutine reading the downstream stream
  upReader,       \* per connection: the goroutine reading the upstream stream
  wire,           \* per connection, history: what crossed the two streams
  sender,         \* the health checker's callback, inside SendRequest
  watcher,        \* the goroutine of initCertificateWatches
  stopChan,       \* XdsProxy.stopChan is closed
  budget          \* messages and events the environment may still produce

dnsVars == <<dns, heap, lookupTable, published, upd, qry>>
xdsVars == <<connected, connectedMutex, registered, con, handler, downReader, upReader,
             wire, sender, watcher, stopChan, budget>>
vars == <<dnsVars, xdsVars>>

NoDNS == [disabled |-> TRUE]
Freed == [freed |-> TRUE]

(***************************************************************************)
(* LocalDNSServer: UpdateLookupTable and ServeDNS, step by step.           *)
(***************************************************************************)
\* Garbage collection: a table no pointer refers to is gone.
Collect(hp, live) == [i \in DOMAIN hp |-> IF i \in live THEN hp[i] ELSE Freed]

QryRefs(q) == IF q.pc = "idle" THEN {} ELSE {q.lp}
UpdRefs(u) == IF u.pc = "idle" THEN {} ELSE {u.id}

\* an UpdateLookupTable that fills the table in place: the fresh table is
\* stored before the loop
UpdateLookupTableNewInPlace(nt) ==
  /\ upd.pc = "idle"
  /\ budget.updates > 0
  /\ budget' = [budget EXCEPT !.updates = @ - 1]
  /\ heap' = Append(heap, [table |-> EmptyLookupTable, nt |-> nt])
  /\ upd' = [pc |-> "range", id |-> Len(heap) + 1, todo |-> DOMAIN nt]
  /\ lookupTable' = Len(heap) + 1
  /\ published' = Append(published, Len(heap) + 1)
  /\ UNCHANGED <<dns, qry>>

\* lookupTable := &LookupTable{...}: a fresh, empty, unpublished table
UpdateLookupTableNew(nt) ==
  /\ upd.pc = "idle"
  /\ budget.updates > 0
  /\ budget' = [budget EXCEPT !.updates = @ - 1]
  /\ heap' = Append(heap, [table |-> EmptyLookupTable, nt |-> nt])
  /\ upd' = [pc |-> "range", id |-> Len(heap) + 1, todo |-> DOMAIN nt]
  /\ UNCHANGED <<dns, lookupTable, published, qry>>

\* one iteration of: for host, ni := range nt.Table
UpdateLookupTableRange(host) ==
  /\ upd.pc = "range"
  /\ host \in upd.todo
  /\ heap' = [heap EXCEPT ![upd.id].table =
                UpdateEntry(dns, heap[upd.id].table, host, heap[upd.id].nt[host])]
  /\ upd' = [upd EXCEPT !.todo = upd.todo \ {host}]
  /\ UNCHANGED <<dns, lookupTable, published, qry>>

\* h.lookupTable.Store(lookupTable)
UpdateLookupTableStore ==
  /\ upd.pc = "range"
  /\ upd.todo = {}
  /\ lookupTable' = upd.id
  /\ published' = Append(published, upd.id)
  /\ upd' = [pc |-> "idle"]
  /\ heap' = Collect(heap, {upd.id} \cup QryRefs(qry))
  /\ UNCHANGED <<dns, qry>>

Response(rcode, answers, from) == [Rcode |-> rcode, Answer |-> answers, From |-> from]

\* tried and exchanged record the nameservers contacted and what Exchange
\* returned for each, in order
QryDone(question, lp, response, tried, exchanged) ==
  [pc |-> "done", question |-> question, lp |-> lp, response |-> response, tried |-> tried,
   exchanged |-> exchanged]

NoQuestion == [none |-> TRUE]
Question(name, qtype) == [Name |-> name, Qtype |-> qtype]

\* ServeDNS of a message without questions
ServeDNSNoQuestion ==
  /\ qry.pc = "idle"
  /\ qry' = QryDone(NoQuestion, 0, SetReply(RcodeNameError), <<>>, <<>>)
  /\ UNCHANGED <<dns, heap, lookupTable, published, upd>>

\* lp := h.lookupTable.Load(), and the reply when nothing is stored yet
ServeDNSLoad ==
  /\ qry.pc = "idle"
  /\ qry' = [pc |-> "loaded", lp |-> lookupTable, seen |-> Len(published)]
  /\ UNCHANGED <<dns, heap, lookupTable, published, upd>>

\* a server that answers NXDOMAIN itself for whatever lookupHost does not find
ServeDNSReplyAuthoritative(h, table, question, outcomes) ==
  LET hostname == ToLower(question.Name)
      found == lookupHost(table, question.Qtype, hostname)
  IN [response |-> Response(IF Len(found.answers) = 0 THEN RcodeNameError
                            ELSE RcodeSuccess, found.answers, "agent"),
      tried |-> <<>>]

\* The rest of ServeDNS for the question asked, with Exchange's results.
ServeDNSReply(h, table, question, outcomes) ==
  LET hostname == ToLower(question.Name)
      found == lookupHost(table, question.Qtype, hostname)
  IN IF found.hostFound
     THEN [response |-> Response(IF Len(found.answers) = 0 THEN RcodeNameError
                                 ELSE RcodeSuccess, found.answers, "agent"),
           tried |-> <<>>]
     ELSE queryUpstream(h, outcomes)

\* a server that treats a missing table as an empty one
ServeDNSAnswerWithoutNilTest(name, qtype, outcomes) ==
  /\ qry.pc = "loaded"
  /\ LET table == IF qry.lp = 0 THEN EmptyLookupTable ELSE heap[qry.lp].table
         r == ServeDNSReply(dns, table, Question(name, qtype), outcomes)
     IN qry' = QryDone(Question(name, qtype), qry.lp, r.response, r.tried,
                       [i \in DOMAIN r.tried |-> Exchange(r.tried[i], outcomes[i])])
  /\ UNCHANGED <<dns, heap, lookupTable, published, upd>>

ServeDNSAnswer(name, qtype, outcomes) ==
  /\ qry.pc = "loaded"
  /\ IF qry.lp = 0
     THEN qry' = QryDone(Question(name, qtype), 0, SetReply(RcodeNameError), <<>>, <<>>)
     ELSE LET r == ServeDNSReply(dns, heap[qry.lp].table, Question(name, qtype), outcomes)
          IN qry' = QryDone(Question(name, qtype), qry.lp, r.response, r.tried,
                            [i \in DOMAIN r.tried |-> Exchange(r.tried[i], outcomes[i])])
  /\ UNCHANGED <<dns, heap, lookupTable, published, upd>>

\* w.WriteMsg(response); the handler returns
ServeDNSReturn ==
  /\ qry.pc = "done"
  /\ qry' = [pc |-> "idle"]
  /\ heap' = Collect(heap, {lookupTable} \cup UpdRefs(upd))
  /\ UNCHANGED <<dns, lookupTable, published, upd>>

(***************************************************************************)
(* XdsProxy: messages, errors and the inputs of the multiplexer.           *)
(***************************************************************************)
\* downstream connections (streams) explored
MaxConns == 2
\* streams that follow one another in the registration specification
MaxRegistrations == 3
\* requests the downstream proxy sends, over all connections
MaxDownstream == 2
\* responses the control plane sends, over all connections
MaxUpstream == 2
\* probe events the health checker reports
MaxHealth == 1
\* failures of the two streams (Recv, Send and dial errors)
MaxErrors == 1
\* change events of the watched certificate files
MaxFiles == 2
\* capacity of requestsChan and responsesChan (10 in the source, scaled down)
ChanCap == 2

Conns == 1 .. MaxRegistrations

ListenerType == "Listener"
ClusterType == "Cluster"
NameTableType == "NameTable"
HealthInfoTypeURL == "HealthInfo"

NoStatus == [Code |-> 0, Message |-> ""]

\* A DiscoveryRequest; From is history: which goroutine built it.
DiscoveryRequest(typeUrl, versionInfo, responseNonce, errorDetail, from) ==
  [TypeUrl |-> typeUrl, VersionInfo |-> versionInfo, ResponseNonce |-> responseNonce,
   ErrorDetail |-> errorDetail, From |-> from]

DownstreamRequests ==
  {DiscoveryRequest(t, "", "", NoStatus, "downstream") : t \in {ListenerType, ClusterType}}

\* The request the health checker's callback builds for a probe event.
HealthRequest(healthy) ==
  IF healthy THEN DiscoveryRequest(HealthInfoTypeURL, "", "", NoStatus, "health")
  ELSE DiscoveryRequest(HealthInfoTypeURL, "", "",
                        [Code |-> 500, Message |-> "unhealthy"], "health")

\* The initial NDS request of the downstream reader.
FirstNDSRequest == DiscoveryRequest(NameTableType, "", "", NoStatus, "firstNDS")

\* The ACK of a NameTable response.
AckRequest(resp) ==
  DiscoveryRequest(NameTableType, resp.VersionInfo, resp.Nonce, NoStatus, "ack")

\* A resource (an Any): whether it unmarshals into a NameTable, and the name
\* table Unmarshal leaves in nt (for a failed one, the zero NameTable).
PushedNameTable ==
  [h \in {<<"a", ".", "n", ".", "s", ".", "c">>} |-> AllEntries[h]]

EmptyNameTable == [h \in {} |-> NameInfo(ExternalRegistry, <<>>, <<>>, <<>>)]

GoodResource == [unmarshals |-> TRUE, table |-> PushedNameTable]
BadResource == [unmarshals |-> FALSE, table |-> EmptyNameTable]

UnmarshalAny(resource) ==
  [err |-> ~resource.unmarshals,
   nt |-> IF resource.unmarshals THEN resource.table ELSE EmptyNameTable]

DiscoveryResponse(typeUrl, versionInfo, nonce, resources) ==
  [TypeUrl |-> typeUrl, VersionInfo |-> versionInfo, Nonce |-> nonce,
   Resources |-> resources]

UpstreamResponses ==
  {DiscoveryResponse(ClusterType, "v1", "n1", <<>>),
   DiscoveryResponse(ListenerType, "v5", "n5", <<>>),
   DiscoveryResponse(NameTableType, "v2", "n2", <<GoodResource>>),
   DiscoveryResponse(NameTableType, "v3", "n3", <<BadResource>>),
   DiscoveryResponse(NameTableType, "v4", "n4", <<>>)}

\* Errors: io.EOF, or a gRPC status (code, message).
NoError == [eof |-> FALSE, code |-> "OK", message |-> ""]
ErrEOF == [eof |-> TRUE, code |-> "Unknown", message |-> "EOF"]
Status(code, message) == [eof |-> FALSE, code |-> code, message |-> message]

\* one error isExpectedGRPCError expects and one it does not
StreamErrors == {ErrEOF, Status("Unavailable", "connection refused")}

\* the error Recv returns on a stream whose handler has returned
ErrCanceled == Status("Canceled", "context canceled")

ErrDial == Status("Unavailable", "dial failed")
ErrSend == Status("Internal", "send failed")
ErrDeadline == Status("DeadlineExceeded", "context deadline exceeded")

isExpectedGRPCError(err) ==
  \/ err = ErrEOF
  \/ err.code = "Canceled" \/ err.code = "DeadlineExceeded"
  \/ /\ err.code = "Unavailable"
     /\ err.message = "client disconnected" \/ err.message = "transport is closing"

(***************************************************************************)
(* XdsProxy: the connection mutex, RegisterStream and SendRequest.         *)
(***************************************************************************)
\* A pending Lock() of sync.RWMutex keeps new readers out.
LockPending == \E c \in Conns : handler[c].pc = "lock"

\* connectedMutex.Lock() returns
CanLock == connectedMutex.w = 0 /\ connectedMutex.r = 0

\* connectedMutex.RLock() returns
CanRLock == connectedMutex.w = 0 /\ ~LockPending

Full(ch) == Len(ch) >= ChanCap

\* a RegisterStream that leaves the predecessor's stopChan open
CloseConnectedStopSkipped(cn, old) == cn

\* a RegisterStream that closes the stopChan of every connection registered
\* before
CloseRegisteredStops(cn, old) ==
  [c \in Conns |->
     IF \E i \in DOMAIN registered : registered[i] = c
     THEN [cn[c] EXCEPT !.stopClosed = TRUE, !.closes = @ + 1]
     ELSE cn[c]]

\* if p.connected != nil { close(p.connected.stopChan) }; closes counts the
\* close calls on the channel (a second one panics)
CloseConnectedStop(cn, old) ==
  IF old # 0 THEN [cn EXCEPT ![old].stopClosed = TRUE, ![old].closes = @ + 1] ELSE cn

\* StreamAggregatedResources is called for a new downstream stream: a fresh
\* ProxyConnection, then RegisterStream up to its Lock().  close() closes
\* the downstream listener, after which no new stream is accepted.
StreamAggregatedResources(c) ==
  /\ handler[c].pc = "new"
  /\ ~stopChan
  /\ \A d \in Conns : d < c => handler[d].pc # "new"
  /\ budget.conns > 0
  /\ budget' = [budget EXCEPT !.conns = @ - 1]
  /\ handler' = [handler EXCEPT ![c].pc = "lock"]
  /\ UNCHANGED <<dnsVars, connected, connectedMutex, registered, con, downReader,
                 upReader, wire, sender, watcher, stopChan>>

\* RegisterStream: Lock() returns; the previous connection's stopChan is closed
RegisterStreamClose(c) ==
  /\ handler[c].pc = "lock"
  /\ CanLock
  /\ connectedMutex' = [connectedMutex EXCEPT !.w = c]
  /\ con' = CloseConnectedStop(con, connected)
  /\ handler' = [handler EXCEPT ![c].pc = "assign"]
  /\ UNCHANGED <<dnsVars, connected, registered, downReader, upReader, wire, sender,
                 watcher, stopChan, budget>>

\* RegisterStream: p.connected = c, Unlock(); then the downstream reader is spawned
RegisterStreamAssign(c) ==
  /\ handler[c].pc = "assign"
  /\ connected' = c
  /\ registered' = Append(registered, c)
  /\ connectedMutex' = [connectedMutex EXCEPT !.w = 0]
  /\ handler' = [handler EXCEPT ![c].pc = "dial"]
  /\ downReader' = [downReader EXCEPT ![c].pc = "recv"]
  /\ UNCHANGED <<dnsVars, con, upReader, wire, sender, watcher, stopChan, budget>>

\* SendRequest: RLock(), read p.connected; with no connection, RUnlock and return
SendRequestRLock(req) ==
  /\ sender.pc = "idle"
  /\ budget.health > 0
  /\ budget' = [budget EXCEPT !.health = @ - 1]
  /\ CanRLock
  /\ \/ /\ connected = 0
        /\ UNCHANGED <<sender, connectedMutex>>
     \/ /\ connected # 0
        /\ sender' = [pc |-> "send", target |-> connected, req |-> req]
        /\ connectedMutex' = [connectedMutex EXCEPT !.r = @ + 1]
  /\ UNCHANGED <<dnsVars, connected, registered, con, handler, downReader, upReader,
                 wire, watcher, stopChan>>

\* SendRequest: p.connected.requestsChan <- req completes, RUnlock (deferred)
SendRequestSend ==
  /\ sender.pc = "send"
  /\ ~Full(con[sender.target].requestsChan)
  /\ con' = [con EXCEPT ![sender.target].requestsChan = Append(@, sender.req)]
  /\ connectedMutex' = [connectedMutex EXCEPT !.r = @ - 1]
  /\ sender' = [pc |-> "idle", target |-> 0, req |-> HealthRequest(TRUE)]
  /\ UNCHANGED <<dnsVars, connected, registered, handler, downReader, upReader, wire,
                 watcher, stopChan, budget>>

(***************************************************************************)
(* XdsProxy: the downstream reader, the dial, the upstream reader.         *)
(***************************************************************************)
NoRequest == DiscoveryRequest("", "", "", NoStatus, "none")
NoResponse == DiscoveryResponse("", "", "", <<>>)

\* A stream operation fails: one of the failures the environment injects.
Fails ==
  /\ budget.errs > 0
  /\ budget' = [budget EXCEPT !.errs = @ - 1]

\* The streams of a connection end when its handler returns: Recv then
\* yields errors only.
StreamOpen(c) == handler[c].pc # "returned"

\* a reader without the firstNDSSent guard
NeedsFirstNDSUnguarded(server, firstNDSSent, req) ==
  server # NoDNS /\ req.TypeUrl = ListenerType

\* whether the reader follows a forwarded request with the initial NDS request
NeedsFirstNDS(server, firstNDSSent, req) ==
  server # NoDNS /\ ~firstNDSSent /\ req.TypeUrl = ListenerType

\* The reader's position after con.requestsChan <- req.
AfterForward(c, req) ==
  IF NeedsFirstNDS(dns, downReader[c].firstNDSSent, req) THEN "firstNDS" ELSE "recv"

\* downstream.Recv() returns a request, and con.requestsChan <- req: at once
\* when the channel has room, else the reader blocks holding the request
DownstreamRecv(c, req) ==
  /\ downReader[c].pc = "recv"
  /\ StreamOpen(c)
  /\ budget.ds > 0
  /\ budget' = [budget EXCEPT !.ds = @ - 1]
  /\ \/ /\ ~Full(con[c].requestsChan)
        /\ con' = [con EXCEPT ![c].requestsChan = Append(@, req)]
        /\ downReader' = [downReader EXCEPT ![c].pc = AfterForward(c, req)]
        /\ wire' = [wire EXCEPT ![c].dsRecvd = Append(@, req), ![c].dsEnq = Append(@, req)]
     \/ /\ Full(con[c].requestsChan)
        /\ downReader' = [downReader EXCEPT ![c].pc = "forward", ![c].req = req]
        /\ wire' = [wire EXCEPT ![c].dsRecvd = Append(@, req)]
        /\ UNCHANGED con
  /\ UNCHANGED <<dnsVars, connected, connectedMutex, registered, handler, upReader,
                 sender, watcher, stopChan>>

\* the blocked con.requestsChan <- req completes
DownstreamForward(c) ==
  /\ downReader[c].pc = "forward"
  /\ ~Full(con[c].requestsChan)
  /\ con' = [con EXCEPT ![c].requestsChan = Append(@, downReader[c].req)]
  /\ downReader' = [downReader EXCEPT ![c].pc = AfterForward(c, downReader[c].req),
                                      ![c].req = NoRequest]
  /\ wire' = [wire EXCEPT ![c].dsEnq = Append(@, downReader[c].req)]
  /\ UNCHANGED <<dnsVars, connected, connectedMutex, registered, handler, upReader,
                 sender, watcher, stopChan, budget>>

\* con.requestsChan <- (the initial NDS request) completes; firstNDSSent = true
DownstreamFirstNDS(c) ==
  /\ downReader[c].pc = "firstNDS"
  /\ ~Full(con[c].requestsChan)
  /\ con' = [con EXCEPT ![c].requestsChan = Append(@, FirstNDSRequest)]
  /\ downReader' = [downReader EXCEPT ![c].pc = "recv", ![c].firstNDSSent = TRUE]
  /\ wire' = [wire EXCEPT ![c].dsEnq = Append(@, FirstNDSRequest)]
  /\ UNCHANGED <<dnsVars, connected, connectedMutex, registered, handler, upReader,
                 sender, watcher, stopChan, budget>>

\* downstream.Recv() returns an error: the reader offers it on downstreamError
DownstreamRecvError(c, err) ==
  /\ downReader[c].pc = "recv"
  /\ Fails
  /\ downReader' = [downReader EXCEPT ![c].pc = "error", ![c].err = err]
  /\ UNCHANGED <<dnsVars, connected, connectedMutex, registered, con, handler, upReader,
                 wire, sender, watcher, stopChan>>

\* downstream.Recv() on a stream whose handler has returned: gRPC has ended
\* the stream, Recv returns an error and the reader offers it on downstreamError
DownstreamRecvClosed(c) ==
  /\ downReader[c].pc = "recv"
  /\ ~StreamOpen(c)
  /\ downReader' = [downReader EXCEPT ![c].pc = "error", ![c].err = ErrCanceled]
  /\ UNCHANGED <<dnsVars, connected, connectedMutex, registered, con, handler, upReader,
                 wire, sender, watcher, stopChan, budget>>

Returned(ret, closeSend, metric) ==
  [pc |-> "returned", ret |-> ret, closeSend |-> closeSend, metric |-> metric,
   ack |-> NoRequest]

\* grpc.DialContext and xds.StreamAggregatedResources: on success the upstream
\* reader is spawned and the relay loop entered, on failure the error returned
Dial(c) ==
  /\ handler[c].pc = "dial"
  /\ \/ /\ handler' = [handler EXCEPT ![c].pc = "select"]
        /\ upReader' = [upReader EXCEPT ![c].pc = "recv"]
        /\ UNCHANGED budget
     \/ /\ Fails
        /\ handler' = [handler EXCEPT ![c] = Returned(ErrDial, FALSE, "IstiodConnectionFailures")]
        /\ UNCHANGED upReader
  /\ UNCHANGED <<dnsVars, connected, connectedMutex, registered, con, downReader, wire,
                 sender, watcher, stopChan>>

\* upstream.Recv() returns a response, and con.responsesChan <- resp: at once
\* when the channel has room, else the reader blocks holding the response
UpstreamRecv(c, resp) ==
  /\ upReader[c].pc = "recv"
  /\ StreamOpen(c)
  /\ budget.up > 0
  /\ budget' = [budget EXCEPT !.up = @ - 1]
  /\ wire' = [wire EXCEPT ![c].upRecvd = Append(@, resp)]
  /\ \/ /\ ~Full(con[c].responsesChan)
        /\ con' = [con EXCEPT ![c].responsesChan = Append(@, resp)]
        /\ UNCHANGED upReader
     \/ /\ Full(con[c].responsesChan)
        /\ upReader' = [upReader EXCEPT ![c].pc = "forward", ![c].resp = resp]
        /\ UNCHANGED con
  /\ UNCHANGED <<dnsVars, connected, connectedMutex, registered, handler, downReader,
                 sender, watcher, stopChan>>

\* the blocked con.responsesChan <- resp completes
UpstreamForward(c) ==
  /\ upReader[c].pc = "forward"
  /\ ~Full(con[c].responsesChan)
  /\ con' = [con EXCEPT ![c].responsesChan = Append(@, upReader[c].resp)]
  /\ upReader' = [upReader EXCEPT ![c].pc = "recv", ![c].resp = NoResponse]
  /\ UNCHANGED <<dnsVars, connected, connectedMutex, registered, handler, downReader, wire,
                 sender, watcher, stopChan, budget>>

\* upstream.Recv() returns an error: the reader offers it on upstreamError
UpstreamRecvError(c, err) ==
  /\ upReader[c].pc = "recv"
  /\ Fails
  /\ upReader' = [upReader EXCEPT ![c].pc = "error", ![c].err = err]
  /\ UNCHANGED <<dnsVars, connected, connectedMutex, registered, con, handler, downReader,
                 wire, sender, watcher, stopChan>>

\* upstream.Recv() after the handler has returned: the deferred
\* upstreamConn.Close() has ended the stream, Recv returns an error and the
\* reader offers it on upstreamError
UpstreamRecvClosed(c) ==
  /\ upReader[c].pc = "recv"
  /\ ~StreamOpen(c)
  /\ upReader' = [upReader EXCEPT ![c].pc = "error", ![c].err = ErrCanceled]
  /\ UNCHANGED <<dnsVars, connected, connectedMutex, registered, con, handler, downReader,
                 wire, sender, watcher, stopChan, budget>>

(***************************************************************************)
(* XdsProxy.HandleUpstream: the relay loop, one action per select case.    *)
(***************************************************************************)
\* a relay loop that absorbs only the upstream errors it expects
OnUpstreamErrorSurfaced(err) ==
  IF isExpectedGRPCError(err) THEN Returned(NoError, TRUE, "IstiodConnectionCancellations")
  ELSE Returned(err, FALSE, "IstiodConnectionErrors")

\* case err := <-con.upstreamError
OnUpstreamError(err) ==
  Returned(NoError, TRUE,
           IF isExpectedGRPCError(err) THEN "IstiodConnectionCancellations"
           ELSE "IstiodConnectionErrors")

\* case err := <-con.downstreamError
OnDownstreamError(err) ==
  Returned(err, FALSE,
           IF isExpectedGRPCError(err) THEN "EnvoyConnectionCancellations"
           ELSE "EnvoyConnectionErrors")

RelayUpstreamError(c) ==
  /\ handler[c].pc = "select"
  /\ upReader[c].pc = "error"
  /\ handler' = [handler EXCEPT ![c] = OnUpstreamError(upReader[c].err)]
  /\ upReader' = [upReader EXCEPT ![c].pc = "exit", ![c].err = NoError]
  /\ UNCHANGED <<dnsVars, connected, connectedMutex, registered, con, downReader, wire,
                 sender, watcher, stopChan, budget>>

RelayDownstreamError(c) ==
  /\ handler[c].pc = "select"
  /\ downReader[c].pc = "error"
  /\ handler' = [handler EXCEPT ![c] = OnDownstreamError(downReader[c].err)]
  /\ downReader' = [downReader EXCEPT ![c].pc = "exit", ![c].err = NoError]
  /\ UNCHANGED <<dnsVars, connected, connectedMutex, registered, con, upReader, wire,
                 sender, watcher, stopChan, budget>>

\* a channel that hands out its newest message
ReceiveNewest(ch) == [msg |-> ch[Len(ch)], rest |-> SubSeq(ch, 1, Len(ch) - 1)]

\* The receive of a select case on a buffered channel: the oldest message.
Receive(ch) == [msg |-> Head(ch), rest |-> Tail(ch)]

\* History of the upstream stream: the downstream's requests sent on it.
Sent(log, req) == IF req.From = "downstream" THEN Append(log, req) ELSE log

\* case req := <-con.requestsChan: sendUpstreamWithTimeout sends it, fails, or
\* times out (upstream.Send may then still complete in its own goroutine)
RelayRequest(c) ==
  /\ handler[c].pc = "select"
  /\ con[c].requestsChan # <<>>
  /\ LET r == Receive(con[c].requestsChan) IN
     /\ con' = [con EXCEPT ![c].requestsChan = r.rest]
     /\ \/ /\ wire' = [wire EXCEPT ![c].upSent = Sent(@, r.msg)]
           /\ UNCHANGED <<handler, budget>>
        \/ /\ Fails
           /\ handler' = [handler EXCEPT ![c] = Returned(ErrSend, FALSE, "none")]
           /\ UNCHANGED wire
        \/ /\ Fails
           /\ handler' = [handler EXCEPT ![c] = Returned(ErrDeadline, FALSE, "none")]
           /\ \/ wire' = [wire EXCEPT ![c].upSent = Sent(@, r.msg)]
              \/ UNCHANGED wire
  /\ UNCHANGED <<dnsVars, connected, connectedMutex, registered, downReader, upReader,
                 sender, watcher, stopChan>>

\* h.UpdateLookupTable(nt) as one step: the table built (in some range
\* order) and stored.
UpdateLookupTable(nt) ==
  /\ \E t \in BuiltTables(dns, EmptyLookupTable, nt, DOMAIN nt) :
       heap' = Collect(Append(heap, [table |-> t, nt |-> nt]),
                       {Len(heap) + 1} \cup QryRefs(qry) \cup UpdRefs(upd))
  /\ lookupTable' = Len(heap) + 1
  /\ published' = Append(published, Len(heap) + 1)
  /\ UNCHANGED <<dns, upd, qry>>

\* a relay loop whose switch has no NameTable case
IsNameTableNever(resp) == FALSE

\* switch resp.TypeUrl: case v3.NameTableType
IsNameTable(resp) == resp.TypeUrl = NameTableType

\* The name table the NameTable case hands to UpdateLookupTable: nt after
\* UnmarshalAny, whose error is only logged.
InterceptedNameTable(resp) == UnmarshalAny(resp.Resources[1]).nt

\* whether the NameTable case updates the lookup table
Intercepts(server, resp) == server # NoDNS /\ Len(resp.Resources) > 0

\* a relay loop that sends the ACK of a NameTable response upstream itself
RelayNameTableAcksUpstream(c) ==
  /\ handler[c].pc = "select"
  /\ con[c].responsesChan # <<>>
  /\ LET r == Receive(con[c].responsesChan) IN
     /\ IsNameTable(r.msg)
     /\ IF Intercepts(dns, r.msg)
        THEN UpdateLookupTable(InterceptedNameTable(r.msg))
        ELSE UNCHANGED dnsVars
     /\ con' = [con EXCEPT ![c].responsesChan = r.rest]
     /\ wire' = [wire EXCEPT ![c].upSent = Append(@, AckRequest(r.msg))]
  /\ UNCHANGED <<connected, connectedMutex, registered, handler, downReader, upReader,
                 sender, watcher, stopChan, budget>>

\* case resp := <-con.responsesChan, NameTableType: update the lookup table,
\* then con.requestsChan <- ACK, which blocks while requestsChan is full.
\* Only this loop receives from requestsChan, so a blocked ACK stays blocked.
RelayNameTable(c) ==
  /\ handler[c].pc = "select"
  /\ con[c].responsesChan # <<>>
  /\ LET r == Receive(con[c].responsesChan) IN
     /\ IsNameTable(r.msg)
     /\ IF Intercepts(dns, r.msg)
        THEN UpdateLookupTable(InterceptedNameTable(r.msg))
        ELSE UNCHANGED dnsVars
     /\ \/ /\ ~Full(con[c].requestsChan)
           /\ con' = [con EXCEPT ![c].responsesChan = r.rest,
                                 ![c].requestsChan = Append(@, AckRequest(r.msg))]
           /\ UNCHANGED handler
        \/ /\ Full(con[c].requestsChan)
           /\ con' = [con EXCEPT ![c].responsesChan = r.rest]
           /\ handler' = [handler EXCEPT ![c].pc = "ack", ![c].ack = AckRequest(r.msg)]
  /\ UNCHANGED <<connected, connectedMutex, registered, downReader, upReader, wire,
                 sender, watcher, stopChan, budget>>

\* a relay loop that logs a failed downstream send and goes on
RelayResponseKeepsGoing(c) ==
  /\ handler[c].pc = "select"
  /\ con[c].responsesChan # <<>>
  /\ LET r == Receive(con[c].responsesChan) IN
     /\ ~IsNameTable(r.msg)
     /\ con' = [con EXCEPT ![c].responsesChan = r.rest]
     /\ \/ /\ wire' = [wire EXCEPT ![c].dsSent = Append(@, r.msg)]
           /\ UNCHANGED <<handler, budget>>
        \/ /\ Fails
           /\ UNCHANGED <<handler, wire>>
  /\ UNCHANGED <<dnsVars, connected, connectedMutex, registered, downReader, upReader,
                 sender, watcher, stopChan>>

\* case resp := <-con.responsesChan, any other type: con.downstream.Send(resp)
RelayResponse(c) ==
  /\ handler[c].pc = "select"
  /\ con[c].responsesChan # <<>>
  /\ LET r == Receive(con[c].responsesChan) IN
     /\ ~IsNameTable(r.msg)
     /\ con' = [con EXCEPT ![c].responsesChan = r.rest]
     /\ \/ /\ wire' = [wire EXCEPT ![c].dsSent = Append(@, r.msg)]
           /\ UNCHANGED <<handler, budget>>
        \/ /\ Fails
           /\ handler' = [handler EXCEPT ![c] = Returned(ErrSend, FALSE, "none")]
           /\ UNCHANGED wire
  /\ UNCHANGED <<dnsVars, connected, connectedMutex, registered, downReader, upReader,
                 sender, watcher, stopChan>>

\* case <-con.stopChan
RelayStop(c) ==
  /\ handler[c].pc = "select"
  /\ con[c].stopClosed
  /\ handler' = [handler EXCEPT ![c] = Returned(NoError, TRUE, "none")]
  /\ UNCHANGED <<dnsVars, connected, connectedMutex, registered, con, downReader,
                 upReader, wire, sender, watcher, stopChan, budget>>

(***************************************************************************)
(* XdsProxy.initCertificateWatches: the goroutine that debounces the       *)
(* certificate files' change events, and XdsProxy.close.                   *)
(***************************************************************************)
\* the files whose events the goroutine selects on (the root certificate is
\* added to the file watcher, but its events are not selected on)
SelectedFiles == {"certFile", "keyFile"}

\* the files added to the file watcher: rootCert, certFile and keyFile
WatchedFiles == {"rootCert", "certFile", "keyFile"}

\* A watched file changes: the file watcher has an event for it to deliver on
\* Events(file).  watcher.events counts the events not yet received.
FileChanged(file) ==
  /\ budget.files > 0
  /\ budget' = [budget EXCEPT !.files = @ - 1]
  /\ watcher' = [watcher EXCEPT !.events[file] = @ + 1]
  /\ UNCHANGED <<dnsVars, connected, connectedMutex, registered, con, handler, downReader,
                 upReader, wire, sender, stopChan>>

\* case <-p.fileWatcher.Events(file): arm the timer unless it is armed.
\* watcher.timers counts the calls of time.After.
FileEvent(file) ==
  /\ watcher.pc = "select"
  /\ watcher.events[file] > 0
  /\ watcher' = [watcher EXCEPT !.events[file] = @ - 1,
                                !.timer = TRUE,
                                !.timers = IF watcher.timer THEN @ ELSE @ + 1]
  /\ UNCHANGED <<dnsVars, connected, connectedMutex, registered, con, handler, downReader,
                 upReader, wire, sender, stopChan, budget>>

\* case <-keyCertTimerC: the timer is cleared, then p.resetChan <- struct{}{}.
\* resetChan is unbuffered and nothing receives from it: the send never
\* completes, so no action leaves pc "reset".
TimerFire ==
  /\ watcher.pc = "select"
  /\ watcher.timer
  /\ watcher' = [watcher EXCEPT !.pc = "reset", !.timer = FALSE]
  /\ UNCHANGED <<dnsVars, connected, connectedMutex, registered, con, handler, downReader,
                 upReader, wire, sender, stopChan, budget>>

\* case <-stop
WatcherStop ==
  /\ watcher.pc = "select"
  /\ stopChan
  /\ watcher' = [watcher EXCEPT !.pc = "exit"]
  /\ UNCHANGED <<dnsVars, connected, connectedMutex, registered, con, handler, downReader,
                 upReader, wire, sender, stopChan, budget>>

\* close(): close(p.stopChan), the listener and the file watcher are closed;
\* downstreamGrpcServer.Stop is named but not called, and the streams that
\* exist are left alone
Close ==
  /\ ~stopChan
  /\ budget.closes > 0
  /\ budget' = [budget EXCEPT !.closes = @ - 1]
  /\ stopChan' = TRUE
  /\ UNCHANGED <<dnsVars, connected, connectedMutex, registered, con, handler, downReader,
                 upReader, wire, sender, watcher>>

(***************************************************************************)
(* The multiplexer's specification.                                        *)
(***************************************************************************)
InitDNSIdle ==
  /\ heap = <<>>
  /\ lookupTable = 0
  /\ published = <<>>
  /\ upd = [pc |-> "idle"]
  /\ qry = [pc |-> "idle"]

InitXds ==
  /\ connected = 0
  /\ connectedMutex = [w |-> 0, r |-> 0]
  /\ registered = <<>>
  /\ con = [c \in Conns |-> [requestsChan |-> <<>>, responsesChan |-> <<>>,
                             stopClosed |-> FALSE, closes |-> 0]]
  /\ handler = [c \in Conns |-> [pc |-> "new", ret |-> NoError, closeSend |-> FALSE,
                                 metric |-> "none", ack |-> NoRequest]]
  /\ downReader = [c \in Conns |-> [pc |-> "off", req |-> NoRequest, err |-> NoError,
                                    firstNDSSent |-> FALSE]]
  /\ upReader = [c \in Conns |-> [pc |-> "off", resp |-> NoResponse, err |-> NoError]]
  /\ wire = [c \in Conns |-> [dsRecvd |-> <<>>, dsEnq |-> <<>>, upSent |-> <<>>,
                              upRecvd |-> <<>>, dsSent |-> <<>>]]
  /\ sender = [pc |-> "idle", target |-> 0, req |-> HealthRequest(TRUE)]
  /\ watcher = [pc |-> "select", timer |-> FALSE, timers |-> 0,
                events |-> [file \in WatchedFiles |-> 0]]
  /\ stopChan = FALSE

\* What the environment does in a run: streams opened, messages received on
\* the two streams, probe events, stream failures, file events, close calls
\* and name tables pushed directly.
Idle ==
  [conns |-> 0, ds |-> 0, up |-> 0, health |-> 0, errs |-> 0, files |-> 0, closes |-> 0,
   updates |-> 0]

\* one stream relaying both ways, with probe events and a failure
RelayWorkload ==
  [Idle EXCEPT !.conns = 1, !.ds = MaxDownstream, !.up = MaxUpstream,
               !.health = MaxHealth, !.errs = MaxErrors]

\* streams replacing one another while requests and probe events arrive
ReconnectWorkload ==
  [Idle EXCEPT !.conns = MaxConns, !.ds = MaxDownstream, !.health = MaxHealth]

\* more responses than responsesChan holds
BackPressureWorkload == [Idle EXCEPT !.conns = 1, !.up = ChanCap + 1]

\* certificate rotation and shutdown around one stream
RotationWorkload ==
  [Idle EXCEPT !.conns = 1, !.ds = 1, !.files = MaxFiles, !.closes = 1]

Workloads == {RelayWorkload, ReconnectWorkload, BackPressureWorkload, RotationWorkload}

LocalDNSServers == {NoDNS, NewLocalDNSServer(<<"n">>, <<"s", ".", "c">>, ResolvConf)}

Init ==
  /\ dns \in LocalDNSServers
  /\ InitDNSIdle
  /\ InitXds
  /\ budget \in Workloads

Next ==
  \/ \E c \in Conns : StreamAggregatedResources(c)
  \/ \E c \in Conns : RegisterStreamClose(c)
  \/ \E c \in Conns : RegisterStreamAssign(c)
  \/ \E healthy \in BOOLEAN : SendRequestRLock(HealthRequest(healthy))
  \/ SendRequestSend
  \/ \E c \in Conns, req \in DownstreamRequests : DownstreamRecv(c, req)
  \/ \E c \in Conns, err \in StreamErrors : DownstreamRecvError(c, err)
  \/ \E c \in Conns : DownstreamForward(c)
  \/ \E c \in Conns : DownstreamFirstNDS(c)
  \/ \E c \in Conns : Dial(c)
  \/ \E c \in Conns, resp \in UpstreamResponses : UpstreamRecv(c, resp)
  \/ \E c \in Conns, err \in StreamErrors : UpstreamRecvError(c, err)
  \/ \E c \in Conns : UpstreamForward(c)
  \/ \E c \in Conns : RelayUpstreamError(c)
  \/ \E c \in Conns : RelayDownstreamError(c)
  \/ \E c \in Conns : RelayRequest(c)
  \/ \E c \in Conns : RelayNameTable(c)
  \/ \E c \in Conns : RelayResponse(c)
  \/ \E c \in Conns : RelayStop(c)
  \/ \E file \in WatchedFiles : FileChanged(file)
  \/ \E file \in SelectedFiles : FileEvent(file)
  \/ TimerFire
  \/ WatcherStop
  \/ Close

Spec == Init /\ [][Next]_vars

(***************************************************************************)
(* The name server's specification: name tables pushed (UpdateLookupTable  *)
(* as one step) and queries served.                                        *)
(***************************************************************************)
InitDNS ==
  /\ dns \in DNSServers
  /\ InitDNSIdle
  /\ InitXds
  /\ budget = [Idle EXCEPT !.updates = MaxUpdates]

\* a caller of UpdateLookupTable
CallUpdateLookupTable(nt) ==
  /\ budget.updates > 0
  /\ budget' = [budget EXCEPT !.updates = @ - 1]
  /\ UpdateLookupTable(nt)

xdsState == <<connected, connectedMutex, registered, con, handler, downReader, upReader,
              wire, sender, watcher, stopChan>>

NextDNS ==
  \/ \E nt \in NameTables : CallUpdateLookupTable(nt) /\ UNCHANGED xdsState
  \/ ServeDNSNoQuestion /\ UNCHANGED xdsVars
  \/ ServeDNSLoad /\ UNCHANGED xdsVars
  \/ \E name \in QueryNames, qtype \in QueryTypes,
        outcomes \in [1 .. 2 -> ExchangeOutcomes] :
       ServeDNSAnswer(name, qtype, outcomes) /\ UNCHANGED xdsVars
  \/ ServeDNSReturn /\ UNCHANGED xdsVars

SpecDNS == InitDNS /\ [][NextDNS]_vars

(***************************************************************************)
(* The snapshot specification: UpdateLookupTable step by step, interleaved *)
(* with queries.                                                           *)
(***************************************************************************)
SnapshotNameTables ==
  {nt \in NameTables :
     DOMAIN nt \subseteq {<<"a", ".", "n", ".", "s", ".", "c">>, <<"a">>}}

SnapshotQueryNames ==
  {<<"a", ".">>, <<"a", ".", "n", ".", "s", ".", "c", ".">>, <<"z", ".">>}

InitSnapshot ==
  /\ dns = NewLocalDNSServer(<<"n">>, <<"s", ".", "c">>, ResolvConf)
  /\ InitDNSIdle
  /\ InitXds
  /\ budget = [Idle EXCEPT !.updates = MaxUpdates]

NextSnapshot ==
  \/ \E nt \in SnapshotNameTables : UpdateLookupTableNew(nt) /\ UNCHANGED xdsState
  \/ \E host \in DOMAIN AllEntries : UpdateLookupTableRange(host) /\ UNCHANGED xdsVars
  \/ UpdateLookupTableStore /\ UNCHANGED xdsVars
  \/ ServeDNSNoQuestion /\ UNCHANGED xdsVars
  \/ ServeDNSLoad /\ UNCHANGED xdsVars
  \/ \E name \in SnapshotQueryNames, qtype \in QueryTypes,
        outcomes \in [1 .. 2 -> ExchangeOutcomes] :
       ServeDNSAnswer(name, qtype, outcomes) /\ UNCHANGED xdsVars
  \/ ServeDNSReturn /\ UNCHANGED xdsVars

SpecSnapshot == InitSnapshot /\ [][NextSnapshot]_vars

(***************************************************************************)
(* The rotation specification: one stream, certificate file events and     *)
(* close, with the fairness the Go scheduler gives: a goroutine that can   *)
(* take a step takes it, and an armed timer fires.  What the environment   *)
(* does (requests, file events, close) is not forced.                      *)
(***************************************************************************)
InitRotation ==
  /\ dns \in LocalDNSServers
  /\ InitDNSIdle
  /\ InitXds
  /\ budget = RotationWorkload

NextRotation ==
  \/ \E c \in Conns : StreamAggregatedResources(c)
  \/ \E c \in Conns : RegisterStreamClose(c)
  \/ \E c \in Conns : RegisterStreamAssign(c)
  \/ \E c \in Conns, req \in DownstreamRequests : DownstreamRecv(c, req)
  \/ \E c \in Conns : DownstreamFirstNDS(c)
  \/ \E c \in Conns : Dial(c)
  \/ \E c \in Conns : RelayRequest(c)
  \/ \E file \in WatchedFiles : FileChanged(file)
  \/ \E file \in SelectedFiles : FileEvent(file)
  \/ TimerFire
  \/ WatcherStop
  \/ Close

Scheduling ==
  /\ \A c \in Conns : WF_vars(RegisterStreamClose(c))
  /\ \A c \in Conns : WF_vars(RegisterStreamAssign(c))
  /\ \A c \in Conns : WF_vars(DownstreamFirstNDS(c))
  /\ \A c \in Conns : WF_vars(Dial(c))
  /\ \A c \in Conns : WF_vars(RelayRequest(c))
  /\ \A file \in SelectedFiles : WF_vars(FileEvent(file))
  /\ WF_vars(TimerFire)
  /\ WF_vars(WatcherStop)

FairSpec == InitRotation /\ [][NextRotation]_vars /\ Scheduling

(***************************************************************************)
(* The supersession specification: streams replacing one another while     *)
(* both sides send, with the same fairness: every goroutine that can take  *)
(* a step takes it, and a select whose stopChan case stays ready takes it. *)
(***************************************************************************)
\* a stream replaced by another while requests and a response are in flight
SupersedeWorkload ==
  [Idle EXCEPT !.conns = MaxConns, !.ds = MaxDownstream, !.up = 1]

InitSupersede ==
  /\ dns \in LocalDNSServers
  /\ InitDNSIdle
  /\ InitXds
  /\ budget = SupersedeWorkload

NextSupersede ==
  \/ \E c \in Conns : StreamAggregatedResources(c)
  \/ \E c \in Conns : RegisterStreamClose(c)
  \/ \E c \in Conns : RegisterStreamAssign(c)
  \/ \E c \in Conns, req \in DownstreamRequests : DownstreamRecv(c, req)
  \/ \E c \in Conns : DownstreamForward(c)
  \/ \E c \in Conns : DownstreamFirstNDS(c)
  \/ \E c \in Conns : Dial(c)
  \/ \E c \in Conns, resp \in UpstreamResponses : UpstreamRecv(c, resp)
  \/ \E c \in Conns : RelayRequest(c)
  \/ \E c \in Conns : RelayNameTable(c)
  \/ \E c \in Conns : RelayResponse(c)
  \/ \E c \in Conns : RelayStop(c)

SchedulingSupersede ==
  /\ \A c \in Conns : WF_vars(RegisterStreamClose(c))
  /\ \A c \in Conns : WF_vars(RegisterStreamAssign(c))
  /\ \A c \in Conns : WF_vars(DownstreamForward(c))
  /\ \A c \in Conns : WF_vars(DownstreamFirstNDS(c))
  /\ \A c \in Conns : WF_vars(Dial(c))
  /\ \A c \in Conns : WF_vars(RelayRequest(c))
  /\ \A c \in Conns : WF_vars(RelayNameTable(c))
  /\ \A c \in Conns : WF_vars(RelayResponse(c))
  /\ \A c \in Conns : WF_vars(RelayStop(c))

FairSupersede == InitSupersede /\ [][NextSupersede]_vars /\ SchedulingSupersede

(***************************************************************************)
(* The registration specification: streams that follow one another, each   *)
(* registering and superseding the one before, with a probe event.         *)
(***************************************************************************)
RegistrationWorkload ==
  [Idle EXCEPT !.conns = MaxRegistrations, !.ds = 1, !.health = MaxHealth]

InitRegistrations ==
  /\ dns \in LocalDNSServers
  /\ InitDNSIdle
  /\ InitXds
  /\ budget = RegistrationWorkload

NextRegistrations ==
  \/ \E c \in Conns : StreamAggregatedResources(c)
  \/ \E c \in Conns : RegisterStreamClose(c)
  \/ \E c \in Conns : RegisterStreamAssign(c)
  \/ \E healthy \in BOOLEAN : SendRequestRLock(HealthRequest(healthy))
  \/ SendRequestSend
  \/ \E c \in Conns, req \in DownstreamRequests : DownstreamRecv(c, req)
  \/ \E c \in Conns : DownstreamFirstNDS(c)
  \/ \E c \in Conns : DownstreamRecvClosed(c)
  \/ \E c \in Conns : Dial(c)
  \/ \E c \in Conns : UpstreamRecvClosed(c)
  \/ \E c \in Conns : RelayRequest(c)
  \/ \E c \in Conns : RelayStop(c)

SpecRegistrations == InitRegistrations /\ [][NextRegistrations]_vars

(***************************************************************************)
(* The exit specification: streams that end (dial failure, stream errors,  *)
(* supersession) while requests and probe events arrive, followed to the   *)
(* end of their reader goroutines, with the same fairness.                 *)
(***************************************************************************)
\* streams ending and replacing one another, with a probe event
ExitWorkload ==
  [Idle EXCEPT !.conns = MaxConns, !.ds = MaxDownstream, !.health = MaxHealth,
               !.errs = MaxErrors]

InitExit ==
  /\ dns \in LocalDNSServers
  /\ InitDNSIdle
  /\ InitXds
  /\ budget = ExitWorkload

NextExit ==
  \/ \E c \in Conns : StreamAggregatedResources(c)
  \/ \E c \in Conns : RegisterStreamClose(c)
  \/ \E c \in Conns : RegisterStreamAssign(c)
  \/ \E healthy \in BOOLEAN : SendRequestRLock(HealthRequest(healthy))
  \/ SendRequestSend
  \/ \E c \in Conns, req \in DownstreamRequests : DownstreamRecv(c, req)
  \/ \E c \in Conns, err \in StreamErrors : DownstreamRecvError(c, err)
  \/ \E c \in Conns : DownstreamRecvClosed(c)
  \/ \E c \in Conns : DownstreamForward(c)
  \/ \E c \in Conns : DownstreamFirstNDS(c)
  \/ \E c \in Conns : Dial(c)
  \/ \E c \in Conns, err \in StreamErrors : UpstreamRecvError(c, err)
  \/ \E c \in Conns : UpstreamRecvClosed(c)
  \/ \E c \in Conns : RelayUpstreamError(c)
  \/ \E c \in Conns : RelayDownstreamError(c)
  \/ \E c \in Conns : RelayRequest(c)
  \/ \E c \in Conns : RelayStop(c)

SchedulingExit ==
  /\ \A c \in Conns : WF_vars(RegisterStreamClose(c))
  /\ \A c \in Conns : WF_vars(RegisterStreamAssign(c))
  /\ WF_vars(SendRequestSend)
  /\ \A c \in Conns : WF_vars(DownstreamRecvClosed(c))
  /\ \A c \in Conns : WF_vars(DownstreamForward(c))
  /\ \A c \in Conns : WF_vars(DownstreamFirstNDS(c))
  /\ \A c \in Conns : WF_vars(Dial(c))
  /\ \A c \in Conns : WF_vars(UpstreamRecvClosed(c))
  /\ \A c \in Conns : WF_vars(RelayUpstreamError(c))
  /\ \A c \in Conns : WF_vars(RelayDownstreamError(c))
  /\ \A c \in Conns : WF_vars(RelayRequest(c))
  /\ \A c \in Conns : WF_vars(RelayStop(c))

FairExit == InitExit /\ [][NextExit]_vars /\ SchedulingExit

(***************************************************************************)
(* Properties of the name server.                                          *)
(***************************************************************************)
\* the query ServeDNS has answered, and the table it loaded
Answered == qry.pc = "done" /\ qry.question # NoQuestion /\ qry.lp # 0

\* C1: For every published table T, a query of type A or AAAA for a name in
\* allHosts(T) is answered by the agent with exactly the records lookupHost
\* derives from T, and no upstream nameserver is contacted.
C1_OwnedNameAnsweredLocally ==
  (/\ Answered
   /\ qry.question.Qtype \in {TypeA, TypeAAAA}
   /\ qry.question.Name \in heap[qry.lp].table.allHosts)
  => /\ qry.tried = <<>>
     /\ qry.response.From = "agent"
     /\ qry.response.Answer =
          lookupHost(heap[qry.lp].table, qry.question.Qtype, qry.question.Name).answers

\* a table UpdateLookupTable builds from the name table, completely
CompleteBuild(entry) ==
  entry.table \in BuiltTables(dns, EmptyLookupTable, entry.nt, DOMAIN entry.nt)

\* the query in flight holds a stored snapshot
HoldsSnapshot == qry.pc \in {"loaded", "done"} /\ qry.lp # 0

\* C7: A table update is atomic for readers.  A query's load yields the
\* snapshot stored last (so one stored before the load is observed, or a
\* newer one); the snapshot a query holds is a complete build of its name
\* table, never the table under construction; it does not change while the
\* query holds it; and the reply is computed from it.
C7_SnapshotAtomic ==
  /\ [](/\ (qry.pc = "loaded")
            => qry.lp = IF qry.seen = 0 THEN 0 ELSE published[qry.seen]
        /\ HoldsSnapshot
            => /\ CompleteBuild(heap[qry.lp])
               /\ upd.pc = "range" => upd.id # qry.lp
        /\ (HoldsSnapshot /\ qry.pc = "done")
            => \E outcomes \in [1 .. 2 -> ExchangeOutcomes] :
                 LET r == ServeDNSReply(dns, heap[qry.lp].table, qry.question, outcomes)
                 IN qry.response = r.response /\ qry.tried = r.tried)
  /\ [][(HoldsSnapshot /\ qry'.pc # "idle") => heap'[qry.lp] = heap[qry.lp]]_vars

\* a query holds the first snapshot while the second table is half built
C7_QueryDuringBuild ==
  /\ HoldsSnapshot
  /\ upd.pc = "range"
  /\ upd.todo # {}
  /\ upd.todo # DOMAIN heap[upd.id].nt

(***************************************************************************)
(* Properties of the multiplexer.                                          *)
(***************************************************************************)
\* this step takes the oldest response off connection c's responsesChan
TakesResponse(c) ==
  /\ con[c].responsesChan # <<>>
  /\ con'[c].responsesChan = Tail(con[c].responsesChan)

\* this step takes a NameTable response off connection c's responsesChan
TakesNameTable(c) ==
  /\ TakesResponse(c)
  /\ Head(con[c].responsesChan).TypeUrl = NameTableType

\* the NameTable response at the head of c's responsesChan is one whose
\* resource the relay loop tries to decode, and cannot
FailsToDecode(c) ==
  /\ Intercepts(dns, Head(con[c].responsesChan))
  /\ UnmarshalAny(Head(con[c].responsesChan).Resources[1]).err

\* this step appends the request to c's requestsChan
Enqueues(c, req) == con'[c].requestsChan = Append(con[c].requestsChan, req)

\* C2: A step of the relay loop that takes a NameTable response which fails
\* to decode leaves the published snapshot as it was (no new table is
\* stored), and enqueues the ACK of the response.
C2_FailedDecodeKeepsSnapshot ==
  [][\A c \in Conns :
       (TakesNameTable(c) /\ FailsToDecode(c))
       => /\ lookupTable' = lookupTable
          /\ published' = published
          /\ Enqueues(c, AckRequest(Head(con[c].responsesChan)))]_vars

\* C3: A step of the relay loop that takes a NameTable response enqueues on
\* the same connection's requestsChan exactly one request, the ACK (type URL
\* NameTable, the response's version and nonce), and sends nothing
\* downstream, whatever the server, the resources and the decoding.  (The
\* send of the ACK either completes with the step or never does: only the
\* relay loop itself receives from requestsChan.)
C3_NameTableAlwaysAcked ==
  [][\A c \in Conns :
       TakesNameTable(c)
       => /\ Enqueues(c, DiscoveryRequest(NameTableType,
                                          Head(con[c].responsesChan).VersionInfo,
                                          Head(con[c].responsesChan).Nonce,
                                          NoStatus, "ack"))
          /\ wire'[c].dsSent = wire[c].dsSent]_vars

\* C4: SendRequest never blocks its caller: once it holds the read lock, its
\* remaining step (enqueue, or drop and return) can always be taken.
C4_SendRequestNeverBlocks == sender.pc = "send" => ENABLED SendRequestSend

\* C5: Once the debounce timer has fired and the watcher's goroutine emits
\* the reset signal, the connection registered then has its upstream stream
\* torn down and its relay loop exits: its handler eventually returns.
C5_ResetTearsDownUpstream ==
  \A c \in Conns :
    (watcher.pc = "reset" /\ connected = c /\ handler[c].pc = "select")
    ~> (handler[c].pc = "returned")

\* C6: At most one connection is registered at a time, and RegisterStream
\* closes the predecessor's stopChan before the new connection is visible:
\* the registered connection is the last one assigned, every connection
\* assigned before it has its stopChan closed, and a SendRequest that has
\* read p.connected routes to the connection registered now.
C6_OneRegisteredConnection ==
  /\ connected = IF registered = <<>> THEN 0 ELSE registered[Len(registered)]
  /\ \A i, j \in DOMAIN registered : registered[i] = registered[j] => i = j
  /\ \A i \in DOMAIN registered : i < Len(registered) => con[registered[i]].stopClosed
  /\ sender.pc = "send"
       => /\ sender.target = connected
          /\ \A c \in Conns : c # sender.target /\ handler[c].pc \notin {"new", "lock"}
                                => con[c].stopClosed

\* SendRequest routes to the second connection registered
C6_RoutesToSuccessor ==
  /\ Len(registered) = 2
  /\ sender.pc = "send"
  /\ sender.target = registered[2]

\* the positions of the initial NDS request in what a reader enqueued
NDSPositions(log) == {i \in DOMAIN log : log[i] = FirstNDSRequest}

\* the Listener requests among what a reader enqueued
ListenerPositions(log) ==
  {i \in DOMAIN log : log[i].From = "downstream" /\ log[i].TypeUrl = ListenerType}

\* the position of the first Listener request, 0 when there is none
FirstListener(log) ==
  IF ListenerPositions(log) = {} THEN 0
  ELSE CHOOSE i \in ListenerPositions(log) : \A j \in ListenerPositions(log) : i <= j

FromDownstream(req) == req.From = "downstream"

\* On connection c the reader enqueues the initial NDS request once, right
\* after the first Listener request it forwards and before it receives again.
FirstNDSFollowsFirstListener(c) ==
  LET log == wire[c].dsEnq
      first == FirstListener(log)
  IN /\ NDSPositions(log) \subseteq IF first = 0 THEN {} ELSE {first + 1}
     /\ (first # 0 /\ downReader[c].pc # "firstNDS") => NDSPositions(log) = {first + 1}
     /\ downReader[c].pc = "firstNDS"
          => /\ first = Len(log)
             /\ wire[c].dsRecvd = SelectSeq(log, FromDownstream)

\* C8: On each connection of an agent with a local DNS server, the first
\* downstream Listener request is followed at once, in what the reader
\* enqueues and before the next downstream message is received, by exactly
\* one initial NDS request, later Listener requests add none, and each
\* connection has its own guard; an agent without a local DNS server never
\* enqueues one.
C8_FirstNDSWithLocalDNS ==
  \A c \in Conns :
    IF dns # NoDNS THEN FirstNDSFollowsFirstListener(c)
    ELSE NDSPositions(wire[c].dsEnq) = {}

\* C8 as stated: on every connection, whatever the agent's configuration
C8_FirstNDSAlways == \A c \in Conns : FirstNDSFollowsFirstListener(c)

\* a connection whose reader forwarded two Listener requests and one NDS request
C8_SecondListener ==
  \E c \in Conns :
    /\ Cardinality(ListenerPositions(wire[c].dsEnq)) = 2
    /\ NDSPositions(wire[c].dsEnq) # {}
    /\ downReader[c].pc = "recv"

\* C9: The relay loop's step that receives from upstreamError returns nil
\* after CloseSend, and its step that receives from downstreamError returns
\* the error received, whether or not isExpectedGRPCError holds of the error.
C9_ErrorPropagation ==
  [][\A c \in Conns :
       /\ (upReader[c].pc = "error" /\ upReader'[c].pc = "exit")
            => /\ handler'[c].pc = "returned"
               /\ handler'[c].ret = NoError
               /\ handler'[c].closeSend
       /\ (downReader[c].pc = "error" /\ downReader'[c].pc = "exit")
            => /\ handler'[c].pc = "returned"
               /\ handler'[c].ret = downReader[c].err]_vars

\* the relay loop has absorbed an upstream error that is not an expected one
C9_UnexpectedUpstreamError ==
  \E c \in Conns :
    /\ upReader[c].pc = "exit"
    /\ handler[c].pc = "returned"
    /\ handler[c].metric = "IstiodConnectionErrors"

IsPrefix(s, t) == Len(s) <= Len(t) /\ s = SubSeq(t, 1, Len(s))

Forwarded(resp) == resp.TypeUrl # NameTableType

\* C10: On every connection the downstream's requests sent upstream are a
\* prefix of those received from the downstream, and the responses sent
\* downstream are a prefix of the responses received from upstream that are
\* not NameTable responses.
C10_FIFO ==
  \A c \in Conns :
    /\ IsPrefix(wire[c].upSent, wire[c].dsRecvd)
    /\ IsPrefix(wire[c].dsSent, SelectSeq(wire[c].upRecvd, Forwarded))

\* two different requests and two different responses relayed on a connection
C10_TwoEachWay ==
  \E c \in Conns :
    /\ Len(wire[c].upSent) = 2 /\ wire[c].upSent[1] # wire[c].upSent[2]
    /\ Len(wire[c].dsSent) = 2 /\ wire[c].dsSent[1] # wire[c].dsSent[2]

\* C11: Responses are routed by type URL alone.  No NameTable response is
\* ever sent downstream.  A step that takes a response of any other type
\* hands it unchanged to downstream.Send (it is sent, or Send fails and the
\* loop returns that error), stores no lookup table and enqueues no request.
C11_RoutedByTypeUrl ==
  /\ [](\A c \in Conns : \A i \in DOMAIN wire[c].dsSent :
          wire[c].dsSent[i].TypeUrl # NameTableType)
  /\ [][\A c \in Conns :
          /\ TakesNameTable(c) => wire'[c].dsSent = wire[c].dsSent
          /\ (TakesResponse(c) /\ Head(con[c].responsesChan).TypeUrl # NameTableType)
               => /\ \/ wire'[c].dsSent =
                          Append(wire[c].dsSent, Head(con[c].responsesChan))
                     \/ /\ wire'[c].dsSent = wire[c].dsSent
                        /\ handler'[c].pc = "returned"
                        /\ handler'[c].ret = ErrSend
                  /\ lookupTable' = lookupTable
                  /\ published' = published
                  /\ con'[c].requestsChan = con[c].requestsChan
                  /\ handler'[c].ack = NoRequest]_vars

\* a connection that has sent one response downstream and taken a NameTable
\* response, of those received, off responsesChan
C11_BothKindsTaken ==
  \E c \in Conns :
    /\ Len(wire[c].dsSent) = 1
    /\ Len(wire[c].upRecvd) = 2
    /\ \E i \in DOMAIN wire[c].upRecvd : wire[c].upRecvd[i].TypeUrl = NameTableType
    /\ con[c].responsesChan = <<>>
    /\ upReader[c].pc = "recv"

(***************************************************************************)
(* Properties of lookupHost, ServeDNS and queryUpstream.                   *)
(***************************************************************************)
\* the table stored in h.lookupTable
CurrentTable == heap[lookupTable].table

\* the name ServeDNS looks up for the question asked
LookedUp == ToLower(qry.question.Name)

\* the reference query: C, T and R for a name H and query type Q
RefC(T, H) == IF H \in DOMAIN T.cname THEN T.cname[H] ELSE <<>>
RefT(T, H) == IF RefC(T, H) # <<>> THEN RefC(T, H)[1].Target ELSE H
RefR(T, Q, H) ==
  LET m == IF Q = TypeA THEN T.name4 ELSE T.name6
  IN IF RefT(T, H) \in DOMAIN m THEN m[RefT(T, H)] ELSE <<>>

\* C12: For every stored table, owned name H and query type A or AAAA,
\* lookupHost returns (C followed by R, true) when R is non-empty and
\* (empty, true) when R is empty; ServeDNS replies with these records and
\* NOERROR in the first case, and with NXDOMAIN and an empty answer section in
\* the second, without contacting a nameserver.
C12_LookupAgreesWithReference ==
  /\ lookupTable # 0 =>
       \A H \in CurrentTable.allHosts : \A Q \in {TypeA, TypeAAAA} :
         LET C == RefC(CurrentTable, H)
             R == RefR(CurrentTable, Q, H)
             out == lookupHost(CurrentTable, Q, H)
         IN /\ out.hostFound
            /\ R # <<>> =>
                 /\ Len(out.answers) = Len(C) + Len(R)
                 /\ \A i \in 1 .. Len(C) : out.answers[i] = C[i]
                 /\ \A i \in 1 .. Len(R) : out.answers[Len(C) + i] = R[i]
            /\ R = <<>> => out.answers = <<>>
  /\ (/\ Answered
      /\ qry.question.Qtype \in {TypeA, TypeAAAA}
      /\ LookedUp \in heap[qry.lp].table.allHosts)
     => LET C == RefC(heap[qry.lp].table, LookedUp)
            R == RefR(heap[qry.lp].table, qry.question.Qtype, LookedUp)
        IN /\ qry.tried = <<>>
           /\ R # <<>> => /\ qry.response.Answer = C \o R
                          /\ qry.response.Rcode = RcodeSuccess
           /\ R = <<>> => /\ qry.response.Answer = <<>>
                          /\ qry.response.Rcode = RcodeNameError

\* a query for a search-expanded name answered with the CNAME record first
\* and the address record of its target second
C12_ChainedAnswer ==
  /\ Answered
  /\ Len(qry.response.Answer) = 2
  /\ qry.response.Answer[1].Hdr.Rrtype = TypeCNAME
  /\ qry.response.Answer[1].Hdr.Name = LookedUp
  /\ qry.response.Answer[2].Hdr.Rrtype = qry.question.Qtype
  /\ qry.response.Answer[2].Hdr.Name = qry.response.Answer[1].Target

\* a query of type AAAA for an owned name that has only A records
C12_OwnedWithoutRecord ==
  /\ Answered
  /\ qry.question.Qtype = TypeAAAA
  /\ LookedUp \in heap[qry.lp].table.allHosts
  /\ qry.response.Rcode = RcodeNameError
  /\ MapGet(heap[qry.lp].table.name4, RefT(heap[qry.lp].table, LookedUp)) # <<>>

\* the names lookupHost is asked for: the queried names as ServeDNS
\* lowercases them, and the names of the table
LookupNames(T) == {ToLower(name) : name \in QueryNames} \cup T.allHosts

\* C13: lookupHost returns (empty, false) exactly when the name is not in
\* allHosts or the query type is neither A nor AAAA, and ServeDNS then
\* forwards the query to the upstream nameservers, starting with the first,
\* and replies with what queryUpstream returns.
C13_NotFoundIsForwarded ==
  /\ lookupTable # 0 =>
       \A H \in LookupNames(CurrentTable) : \A Q \in QueryTypes :
         LET out == lookupHost(CurrentTable, Q, H)
         IN /\ ~out.hostFound <=> (H \notin CurrentTable.allHosts \/ Q \notin {TypeA, TypeAAAA})
            /\ ~out.hostFound => out.answers = <<>>
  /\ (/\ Answered
      /\ \/ LookedUp \notin heap[qry.lp].table.allHosts
         \/ qry.question.Qtype \notin {TypeA, TypeAAAA})
     => /\ qry.tried # <<>>
        /\ qry.tried[1] = dns.resolvConfServers[1]
        /\ \/ qry.response.From = qry.tried[Len(qry.tried)]
           \/ /\ qry.response = SetReply(RcodeNameError)
              /\ qry.tried = dns.resolvConfServers

\* a PTR query for an owned name, answered by the second nameserver
C13_OwnedNameOtherType ==
  /\ Answered
  /\ qry.question.Qtype = TypePTR
  /\ LookedUp \in heap[qry.lp].table.allHosts
  /\ qry.response.From = dns.resolvConfServers[2]

\* the nameservers whose Exchange gives a reply without error and with a
\* non-empty answer section
Yields(h, outcomes) ==
  {i \in DOMAIN h.resolvConfServers :
     LET r == Exchange(h.resolvConfServers[i], outcomes[i])
     IN ~r.err /\ r.msg.Answer # <<>>}

\* the least element of a non-empty set of numbers
Least(S) == CHOOSE i \in S : \A j \in S : i <= j

\* C14: queryUpstream contacts the nameservers in listed order, stops at the
\* first whose reply has no error and a non-empty answer section and returns
\* that reply unchanged, and returns a synthesized NXDOMAIN reply, having
\* contacted all of them, when no nameserver gives such a reply.
C14_FirstAnswerInOrder ==
  /\ \A outcomes \in [DOMAIN dns.resolvConfServers -> ExchangeOutcomes] :
       LET r == queryUpstream(dns, outcomes)
           Y == Yields(dns, outcomes)
       IN /\ IsPrefix(r.tried, dns.resolvConfServers)
          /\ Y # {} => /\ Len(r.tried) = Least(Y)
                       /\ r.response = Exchange(dns.resolvConfServers[Least(Y)],
                                                outcomes[Least(Y)]).msg
          /\ Y = {} => /\ r.tried = dns.resolvConfServers
                       /\ r.response = SetReply(RcodeNameError)
  /\ (Answered /\ qry.tried # <<>>)
     => /\ IsPrefix(qry.tried, dns.resolvConfServers)
        /\ \/ /\ qry.response.Answer # <<>>
              /\ qry.response = Exchange(qry.tried[Len(qry.tried)], "answer").msg
           \/ /\ qry.response = SetReply(RcodeNameError)
              /\ qry.tried = dns.resolvConfServers

\* a forwarded query answered by the first of two nameservers: the second is
\* not contacted
C14_StopsAtFirstAnswer ==
  /\ Answered
  /\ Len(dns.resolvConfServers) = 2
  /\ qry.tried = <<dns.resolvConfServers[1]>>
  /\ qry.response.From = dns.resolvConfServers[1]
  /\ qry.response.Answer # <<>>

\* the replies the nameservers contacted gave without error
UpstreamReplies ==
  {qry.exchanged[i].msg : i \in {j \in DOMAIN qry.exchanged : ~qry.exchanged[j].err}}

\* C15: The reply's rcode is NOERROR when the agent answers an owned name
\* with records, NXDOMAIN when the name is owned but has no record of the
\* queried type, and, when the query is forwarded and a nameserver replied,
\* the rcode of a nameserver's reply.
C15_RcodeConvention ==
  Answered =>
    /\ (qry.tried = <<>> /\ qry.response.Answer # <<>>) => qry.response.Rcode = RcodeSuccess
    /\ (qry.tried = <<>> /\ qry.response.Answer = <<>>) => qry.response.Rcode = RcodeNameError
    /\ (qry.tried # <<>> /\ UpstreamReplies # {})
         => \E m \in UpstreamReplies : qry.response.Rcode = m.Rcode

(***************************************************************************)
(* Properties of the tables UpdateLookupTable builds.                      *)
(***************************************************************************)
\* the targets of the CNAME records of table T
Targets(T) == {T.cname[x][1].Target : x \in DOMAIN T.cname}

\* C16: In every stored table, every key of name4, name6 and cname is a
\* member of allHosts.
C16_KeysAreHosts ==
  lookupTable # 0 =>
    /\ DOMAIN CurrentTable.name4 \subseteq CurrentTable.allHosts
    /\ DOMAIN CurrentTable.name6 \subseteq CurrentTable.allHosts
    /\ DOMAIN CurrentTable.cname \subseteq CurrentTable.allHosts

\* a stored table built from two entries, with keys in all three maps
C16_AllThreeMaps ==
  /\ lookupTable # 0
  /\ Cardinality(DOMAIN heap[lookupTable].nt) = 2
  /\ DOMAIN CurrentTable.name4 # {}
  /\ DOMAIN CurrentTable.name6 # {}
  /\ DOMAIN CurrentTable.cname # {}

\* C17: In every stored table, every CNAME target is a member of allHosts
\* and is not itself the owner of a CNAME record.
C17_NoCnameChain ==
  lookupTable # 0 =>
    /\ Targets(CurrentTable) \subseteq CurrentTable.allHosts
    /\ Targets(CurrentTable) \cap DOMAIN CurrentTable.cname = {}

\* the names of table T: its hosts, the keys of its maps, the owner names of
\* its records and the targets of its CNAME records
Names(T) ==
  T.allHosts \cup DOMAIN T.name4 \cup DOMAIN T.name6 \cup DOMAIN T.cname \cup Targets(T)
  \cup UNION {{T.name4[x][i].Hdr.Name : i \in DOMAIN T.name4[x]} : x \in DOMAIN T.name4}
  \cup UNION {{T.name6[x][i].Hdr.Name : i \in DOMAIN T.name6[x]} : x \in DOMAIN T.name6}
  \cup {T.cname[x][1].Hdr.Name : x \in DOMAIN T.cname}

\* C18: In every stored table, every name in allHosts, name4, name6 and cname
\* and every CNAME target is lowercase and ends with a dot.
C18_LowercaseDotTerminated ==
  lookupTable # 0 =>
    \A x \in Names(CurrentTable) : ToLower(x) = x /\ HasSuffix(x, Dot)

\* every name of every stored table ends with a dot
DotTerminated ==
  lookupTable # 0 => \A x \in Names(CurrentTable) : Len(x) > 0 /\ x[Len(x)] = "."

\* the alternate hosts of an entry by the rule: host., and for a Kubernetes
\* host inside the proxy's non-empty domain shortname.namespace.,
\* shortname.namespace.<first label of the domain>. and, in the proxy's own
\* namespace, shortname.
RuleAltHosts(h, host, ni) ==
  LET inDomain == /\ ni.Registry = KubernetesRegistry
                  /\ h.proxyDomain # <<>>
                  /\ HasSuffix(host, h.proxyDomain)
      firstLabel == Split(h.proxyDomain)[1]
  IN {host \o Dot}
     \cup {x \in {ni.Shortname \o Dot \o ni.Namespace \o Dot,
                  ni.Shortname \o Dot \o ni.Namespace \o Dot \o firstLabel \o Dot} : inDomain}
     \cup {x \in {ni.Shortname \o Dot} : inDomain /\ ni.Namespace = h.proxyNamespace}

\* the entries of a name table that have an IP address that parses
WithValidIP(nt) ==
  {host \in DOMAIN nt : \E i \in DOMAIN nt[host].Ips : ParseIP(nt[host].Ips[i]) # NilIP}

\* the alternate hosts, by the rule, of the entries the stored table was built from
StoredAltHosts ==
  UNION {RuleAltHosts(dns, host, heap[lookupTable].nt[host]) :
           host \in WithValidIP(heap[lookupTable].nt)}

\* C19: The names that carry address records in a stored table are the
\* alternate hosts the rule derives for the entries that have a valid IP, and
\* with an empty search list they are all of allHosts.
C19_AltHostsByRule ==
  lookupTable # 0 =>
    /\ DOMAIN CurrentTable.name4 \cup DOMAIN CurrentTable.name6 = StoredAltHosts
    /\ StoredAltHosts \subseteq CurrentTable.allHosts
    /\ dns.searchNamespaces = <<>> => CurrentTable.allHosts = StoredAltHosts

\* a table without search expansion built from one Kubernetes service of the
\* proxy's namespace and one of another namespace: four and three names
C19_BothNamespaces ==
  /\ lookupTable # 0
  /\ dns.searchNamespaces = <<>>
  /\ DOMAIN heap[lookupTable].nt = {<<"a", ".", "n", ".", "s", ".", "c">>,
                                    <<"a", ".", "m", ".", "s", ".", "c">>}
  /\ Cardinality(CurrentTable.allHosts) = 7
  /\ <<"a", ".">> \in CurrentTable.allHosts

\* h followed by the first search namespace and a dot
WithFirstSearch(h) == h \o dns.searchNamespaces[1] \o Dot

\* the alternate hosts of the stored table's entry of host whose expansion is
\* not among that entry's alternate hosts
Expanding(host) ==
  LET alt == RuleAltHosts(dns, host, heap[lookupTable].nt[host])
  IN {h \in alt : WithFirstSearch(h) \notin alt}

\* the alternate hosts of the stored table that get a CNAME
StoredExpanding ==
  IF dns.searchNamespaces = <<>> THEN {}
  ELSE UNION {Expanding(host) : host \in WithValidIP(heap[lookupTable].nt)}

\* C20: With a non-empty search list S, the CNAME records of a stored table
\* are exactly h + S[0] + "." -> h for the alternate hosts h of an entry whose
\* expansion is not among that entry's alternate hosts; allHosts holds the
\* alternate hosts and these expansions and nothing else (no other search
\* namespace is expanded); and a query of type A (or AAAA) for an expansion
\* whose target has records of that type is answered with the CNAME record
\* followed by the A (AAAA) records of h.
C20_SearchPathShortCircuit ==
  /\ lookupTable # 0 =>
       /\ DOMAIN CurrentTable.cname = {WithFirstSearch(h) : h \in StoredExpanding}
       /\ \A h \in StoredExpanding :
            CurrentTable.cname[WithFirstSearch(h)] =
              << [Hdr |-> [Name |-> WithFirstSearch(h), Rrtype |-> TypeCNAME,
                           Class |-> ClassINET, Ttl |-> defaultTTLInSeconds],
                  Target |-> h] >>
       /\ CurrentTable.allHosts = StoredAltHosts \cup DOMAIN CurrentTable.cname
  /\ (/\ Answered
      /\ qry.question.Qtype \in {TypeA, TypeAAAA}
      /\ LookedUp \in DOMAIN heap[qry.lp].table.cname)
     => LET T == heap[qry.lp].table
            h == T.cname[LookedUp][1].Target
            R == RefR(T, qry.question.Qtype, LookedUp)
        IN /\ LookedUp = WithFirstSearch(h)
           /\ R = MapGet(IF qry.question.Qtype = TypeA THEN T.name4 ELSE T.name6, h)
           /\ R # <<>> => /\ qry.response.Answer = T.cname[LookedUp] \o R
                          /\ \A i \in DOMAIN R : R[i].Hdr.Name = h
           /\ qry.tried = <<>>

\* an A query for the expansion a.n.s.c. of the external host a, answered
\* with the CNAME to a. followed by the A record of a.
C20_ExpandedExternalHost ==
  /\ Answered
  /\ qry.question = Question(<<"a", ".", "n", ".", "s", ".", "c", ".">>, TypeA)
  /\ DOMAIN heap[qry.lp].nt = {<<"a">>}
  /\ Len(qry.response.Answer) = 2
  /\ qry.response.Answer[1].Target = <<"a", ".">>
  /\ qry.response.Answer[2].Hdr = RR_Header(<<"a", ".">>, TypeA)

\* the IPv4 and the IPv6 addresses of an IP list, in order: the strings that
\* parse, in 4-byte form when they have one and in 16-byte form otherwise
IsV4(ip) == ParseIP(ip) # NilIP /\ To4(ParseIP(ip)) # NilIP
IsV6(ip) == ParseIP(ip) # NilIP /\ To4(ParseIP(ip)) = NilIP
V4Of(ips) == LET sel == SelectSeq(ips, IsV4) IN [i \in DOMAIN sel |-> To4(ParseIP(sel[i]))]
V6Of(ips) == LET sel == SelectSeq(ips, IsV6) IN [i \in DOMAIN sel |-> ParseIP(sel[i])]

\* the alternate hosts that only the entry of host, among the entries with a
\* valid IP of the stored name table, derives
OwnAltHosts(host) ==
  {h \in RuleAltHosts(dns, host, heap[lookupTable].nt[host]) :
     \A other \in WithValidIP(heap[lookupTable].nt) \ {host} :
       h \notin RuleAltHosts(dns, other, heap[lookupTable].nt[other])}

\* C21: An entry whose IP list has no parseable address contributes nothing:
\* the stored table is one the builder gives for the name table without such
\* entries.  For an entry with a parseable address the malformed strings are
\* skipped, the IPv4 addresses become the A records and the IPv6 addresses the
\* AAAA records of its alternate hosts, in the order listed.
C21_MalformedIPsSkipped ==
  lookupTable # 0 =>
    LET nt == heap[lookupTable].nt
        valid == WithValidIP(nt)
    IN /\ CurrentTable \in BuiltTables(dns, EmptyLookupTable, [h \in valid |-> nt[h]], valid)
       /\ valid = {} => CurrentTable = EmptyLookupTable
       /\ \A host \in valid : \A h \in OwnAltHosts(host) :
            /\ MapGet(CurrentTable.name4, h) =
                 [i \in DOMAIN V4Of(nt[host].Ips) |->
                    [Hdr |-> RR_Header(h, TypeA), A |-> V4Of(nt[host].Ips)[i]]]
            /\ MapGet(CurrentTable.name6, h) =
                 [i \in DOMAIN V6Of(nt[host].Ips) |->
                    [Hdr |-> RR_Header(h, TypeAAAA), AAAA |-> V6Of(nt[host].Ips)[i]]]

\* a table stored from an entry with one malformed and one IPv4 address and
\* an entry whose only address is malformed
C21_OneEntrySkipped ==
  /\ lookupTable # 0
  /\ DOMAIN heap[lookupTable].nt = {<<"A", ".", "x">>, <<"b", ".", "x">>}
  /\ <<"b", ".", "x", ".">> \notin CurrentTable.allHosts
  /\ Len(CurrentTable.name4[<<"A", ".", "x", ".">>]) = 1
  /\ CurrentTable.name4[<<"A", ".", "x", ".">>][1].A = "10.0.0.1"

\* a table stored from the dual-stack entry: one A and one AAAA record
C21_DualStack ==
  /\ lookupTable # 0
  /\ DOMAIN heap[lookupTable].nt = {<<"a", ".", "m", ".", "s", ".", "c">>}
  /\ Len(CurrentTable.name4[<<"a", ".", "m", ".">>]) = 1
  /\ Len(CurrentTable.name6[<<"a", ".", "m", ".">>]) = 1

\* C22: A query without a question, and a query that loads the table before
\* any has been stored, is answered by the agent with NXDOMAIN and an empty
\* answer section, and no nameserver is contacted.
C22_NoQuestionOrNoTable ==
  (qry.pc = "done" /\ (qry.question = NoQuestion \/ qry.lp = 0))
  => /\ qry.response = [Rcode |-> RcodeNameError, Answer |-> <<>>, From |-> "agent"]
     /\ qry.tried = <<>>
     /\ qry.exchanged = <<>>

\* a question answered by a query that loaded the table before the first
\* was stored, while one has been stored since
C22_BeforeFirstTable ==
  /\ qry.pc = "done"
  /\ qry.question # NoQuestion
  /\ qry.lp = 0
  /\ lookupTable # 0

\* a query without a question answered while a table is stored
C22_ZeroQuestions ==
  /\ qry.pc = "done"
  /\ qry.question = NoQuestion
  /\ lookupTable # 0

(***************************************************************************)
(* Properties of the certificate watcher and of shutdown.                  *)
(***************************************************************************)
\* this step is the watcher's goroutine receiving a file event
ReceivesFileEvent ==
  \E file \in SelectedFiles : watcher'.events[file] = watcher.events[file] - 1

\* the reset signals the goroutine has emitted: it is at its send on
\* resetChan, or not
ResetsEmitted == IF watcher.pc = "reset" THEN 1 ELSE 0

\* an event received while the timer is pending starts no second timer, and
\* every timer started has fired into one reset signal or is still pending
Coalesced ==
  /\ [][(ReceivesFileEvent /\ watcher.timer)
          => (watcher'.timer /\ watcher'.timers = watcher.timers)]_vars
  /\ [](watcher.timers = ResetsEmitted + (IF watcher.timer THEN 1 ELSE 0))

\* C23: File events are coalesced (an event received while the debounce
\* timer is pending starts no second timer, and each timer gives one reset
\* signal), and every event of a selected file is, unless the agent is
\* stopped, eventually received into a burst with a pending timer.
C23_BurstGivesOneReset ==
  /\ Coalesced
  /\ \A file \in SelectedFiles :
       (watcher.events[file] > 0 /\ ~stopChan) ~> (watcher.timer \/ stopChan)

\* the goroutines of connection c have terminated, or were never started
ConnectionTerminated(c) ==
  /\ handler[c].pc \in {"new", "returned"}
  /\ downReader[c].pc \in {"off", "exit"}
  /\ upReader[c].pc \in {"off", "exit"}

\* C24: Once close() has closed the agent's stopChan, the watcher's
\* goroutine, every relay loop and the readers of every connection
\* eventually terminate.
C24_CloseTerminatesAll ==
  stopChan ~> (watcher.pc = "exit" /\ \A c \in Conns : ConnectionTerminated(c))

\* once stopChan is closed, a watcher in its select eventually exits
WatcherInSelectStops ==
  (stopChan /\ watcher.pc = "select") ~> (watcher.pc \in {"exit", "reset"})

(***************************************************************************)
(* Properties of the connections' lifetimes.                               *)
(***************************************************************************)
\* connection c's relay loop is running: its upstream stream is open
Relaying(c) == handler[c].pc \in {"select", "ack"}

\* C25: In every state at most one relay loop holds an open upstream stream.
C25_OneActiveStream ==
  Cardinality({c \in Conns : Relaying(c)}) <= 1

\* at most one relay loop whose stopChan has not been closed is running
OneStreamNotSuperseded ==
  Cardinality({c \in Conns : Relaying(c) /\ ~con[c].stopClosed}) <= 1

\* a relay loop whose stopChan has been closed takes no further message off
\* its channels
SupersededRelaysNothing ==
  [][\A c \in Conns :
       (con[c].stopClosed /\ Relaying(c))
         => (Len(con'[c].requestsChan) >= Len(con[c].requestsChan)
             /\ Len(con'[c].responsesChan) >= Len(con[c].responsesChan))]_vars

\* C26: Once the stream handler of a connection has returned, that
\* connection is not p.connected and SendRequest does not enqueue onto it.
C26_ReturnedIsNotTarget ==
  \A c \in Conns :
    handler[c].pc = "returned"
      => /\ connected # c
         /\ ~(sender.pc = "send" /\ sender.target = c)

\* SendRequest enqueues only onto a connection whose handler has not returned
SendsToRunningOnly ==
  [][\A c \in Conns :
       (sender.pc = "send" /\ sender'.pc = "idle" /\ sender.target = c)
         => handler[c].pc # "returned"]_vars

\* C27: An event of any watched file (the root certificate, the client
\* certificate or the key), delivered while the goroutine is in its select,
\* leads to a pending debounce timer and from there to the reset signal,
\* unless the agent is stopped.
C27_AnyWatchedFileResets ==
  \A file \in WatchedFiles :
    (watcher.events[file] > 0 /\ watcher.pc = "select" /\ ~stopChan)
      ~> (watcher.timer \/ watcher.pc = "reset" \/ stopChan)

\* the same for the files the goroutine selects on
SelectedFileResets ==
  /\ \A file \in SelectedFiles :
       (watcher.events[file] > 0 /\ watcher.pc = "select" /\ ~stopChan)
         ~> (watcher.timer \/ watcher.pc = "reset" \/ stopChan)
  /\ (watcher.timer /\ ~stopChan) ~> (watcher.pc = "reset" \/ stopChan)

\* C28: Once a connection's stopChan has been closed, its relay loop
\* eventually returns; when it returns through the stopChan case it has
\* closed the upstream send side and returns nil.
C28_SupersededLoopReturns ==
  /\ \A c \in Conns : con[c].stopClosed ~> (handler[c].pc = "returned")
  /\ [][\A c \in Conns :
          (con[c].stopClosed /\ handler[c].pc = "select" /\ handler'[c].pc = "returned"
           /\ con'[c] = con[c] /\ upReader'[c] = upReader[c] /\ downReader'[c] = downReader[c])
            => (handler'[c].ret = NoError /\ handler'[c].closeSend)]_vars

\* a superseded relay loop that is in its select eventually leaves it
SupersededInSelectLeaves ==
  \A c \in Conns :
    (con[c].stopClosed /\ handler[c].pc = "select") ~> (handler[c].pc \in {"returned", "ack"})

(***************************************************************************)
(* Properties of the relay loop's sends and channels.                      *)
(***************************************************************************)
\* this step takes a request off connection c's requestsChan
TakesRequest(c) ==
  /\ con[c].requestsChan # <<>>
  /\ con'[c].requestsChan = Tail(con[c].requestsChan)

\* this step is one in which a stream operation fails
SendFails == budget'.errs < budget.errs

\* C29: A relay step whose send fails (upstream.Send returns an error or the
\* send timeout expires, or downstream.Send returns an error) returns that
\* error from the relay loop, and a loop that has returned relays nothing
\* more: its logs of sent messages and its result stay as they are and it
\* takes no message off its channels.
C29_SendFailureEndsRelay ==
  [][\A c \in Conns :
       /\ (handler[c].pc = "select" /\ TakesRequest(c) /\ SendFails)
            => /\ handler'[c].pc = "returned"
               /\ handler'[c].ret \in {ErrSend, ErrDeadline}
               /\ wire'[c].dsSent = wire[c].dsSent
       /\ (handler[c].pc = "select" /\ TakesResponse(c) /\ SendFails)
            => /\ handler'[c].pc = "returned"
               /\ handler'[c].ret = ErrSend
               /\ wire'[c].dsSent = wire[c].dsSent
               /\ wire'[c].upSent = wire[c].upSent
       /\ handler[c].pc = "returned"
            => /\ handler'[c] = handler[c]
               /\ wire'[c].upSent = wire[c].upSent
               /\ wire'[c].dsSent = wire[c].dsSent
               /\ Len(con'[c].requestsChan) >= Len(con[c].requestsChan)
               /\ Len(con'[c].responsesChan) >= Len(con[c].responsesChan)]_vars

\* a relay loop that returned the send timeout's error with a request left
\* on its requestsChan
C29_TimedOutWithRequestLeft ==
  \E c \in Conns :
    /\ handler[c].pc = "returned"
    /\ handler[c].ret = ErrDeadline
    /\ con[c].requestsChan # <<>>

\* a relay loop that returned a failed downstream send's error
C29_DownstreamSendFailed ==
  \E c \in Conns :
    /\ handler[c].pc = "returned"
    /\ handler[c].ret = ErrSend
    /\ wire[c].upRecvd # <<>>
    /\ wire[c].dsRecvd = <<>>

\* The task that wrote a request: the downstream reader (the downstream's
\* requests and the initial NDS request), SendRequest's caller, the relay loop.
Writer(req) ==
  CASE req.From \in {"downstream", "firstNDS"} -> "downstreamReader"
    [] req.From = "health" -> "SendRequest"
    [] req.From = "ack" -> "relayLoop"
    [] OTHER -> "none"

Newest(ch) == ch[Len(ch)]

ReqGrows(c) == Len(con'[c].requestsChan) > Len(con[c].requestsChan)
ReqShrinks(c) == Len(con'[c].requestsChan) < Len(con[c].requestsChan)
RespGrows(c) == Len(con'[c].responsesChan) > Len(con[c].responsesChan)
RespShrinks(c) == Len(con'[c].responsesChan) < Len(con[c].responsesChan)

\* which task's step a step is
ReaderEnqueues(c) == wire'[c].dsEnq # wire[c].dsEnq
SendRequestEnqueues(c) == sender.pc = "send" /\ sender.target = c /\ sender'.pc = "idle"
RelayTakesResponse(c) == handler[c].pc = "select" /\ RespShrinks(c)
UpstreamReaderEnqueues(c) ==
  \/ wire'[c].upRecvd # wire[c].upRecvd
  \/ upReader[c].pc = "forward" /\ upReader'[c].pc = "recv"
OnlyRelayMoves(c) ==
  /\ handler[c].pc = "select"
  /\ downReader' = downReader
  /\ upReader' = upReader
  /\ sender' = sender

\* C30, as stated for the requests channel: all the requests a connection's
\* requestsChan holds were written by one task.
C30_SingleWriterPerChannel ==
  \A c \in Conns :
    \A i, j \in 1..Len(con[c].requestsChan) :
      Writer(con[c].requestsChan[i]) = Writer(con[c].requestsChan[j])

\* C30: responsesChan is written only by the upstream reader, and the two
\* error channels only by their readers; requestsChan is written by three
\* tasks: the downstream reader, SendRequest's caller, and the relay loop
\* itself, which puts the ACK of every NameTable response on it (or blocks
\* on that send). All four channels are read only by the relay loop, which
\* is the only task that moves when a message or an error is taken.
C30_WritersAndReaders ==
  [][\A c \in Conns :
       /\ ReqGrows(c) =>
            /\ con'[c].requestsChan = Append(con[c].requestsChan, Newest(con'[c].requestsChan))
            /\ \/ /\ ReaderEnqueues(c)
                  /\ ~SendRequestEnqueues(c) /\ ~RelayTakesResponse(c)
                  /\ Writer(Newest(con'[c].requestsChan)) = "downstreamReader"
               \/ /\ SendRequestEnqueues(c)
                  /\ ~ReaderEnqueues(c) /\ ~RelayTakesResponse(c)
                  /\ Writer(Newest(con'[c].requestsChan)) = "SendRequest"
               \/ /\ RelayTakesResponse(c)
                  /\ ~ReaderEnqueues(c) /\ ~SendRequestEnqueues(c)
                  /\ Writer(Newest(con'[c].requestsChan)) = "relayLoop"
       /\ (RelayTakesResponse(c) /\ IsNameTable(Head(con[c].responsesChan))) =>
            \/ con'[c].requestsChan =
                 Append(con[c].requestsChan, AckRequest(Head(con[c].responsesChan)))
            \/ /\ handler'[c].pc = "ack"
               /\ handler'[c].ack = AckRequest(Head(con[c].responsesChan))
       /\ RespGrows(c) => UpstreamReaderEnqueues(c) /\ handler'[c] = handler[c]
       /\ (ReqShrinks(c) \/ RespShrinks(c)) => OnlyRelayMoves(c)
       /\ (downReader[c].pc = "error" /\ downReader'[c].pc # "error") =>
            /\ handler[c].pc = "select"
            /\ handler'[c] = OnDownstreamError(downReader[c].err)
            /\ upReader' = upReader /\ sender' = sender
       /\ (upReader[c].pc = "error" /\ upReader'[c].pc # "error") =>
            /\ handler[c].pc = "select"
            /\ handler'[c] = OnUpstreamError(upReader[c].err)
            /\ downReader' = downReader /\ sender' = sender]_vars

\* a requestsChan holding a request SendRequest wrote and an ACK the relay
\* loop wrote
C30_HealthAndAckQueued ==
  \E c \in Conns :
    /\ \E i \in 1..Len(con[c].requestsChan) : Writer(con[c].requestsChan[i]) = "SendRequest"
    /\ \E i \in 1..Len(con[c].requestsChan) : Writer(con[c].requestsChan[i]) = "relayLoop"

(***************************************************************************)
(* Properties of blocking: the ACK send, RegisterStream, the readers.      *)
(***************************************************************************)
\* C31: The relay loop never blocks forever on its own requestsChan: a relay
\* loop that is at the send of a NameTable ACK (con.requestsChan <- ACK)
\* eventually completes that send, whatever the downstream reader and
\* SendRequest have buffered on the channel.
C31_AckSendCompletes ==
  \A c \in Conns : (handler[c].pc = "ack") ~> (handler[c].pc # "ack")

\* a relay loop at its ACK send with requestsChan full
AckBlockedOnFull ==
  \E c \in Conns : handler[c].pc = "ack" /\ Full(con[c].requestsChan)

\* an ACK that found room: it is on requestsChan and the loop is in its select
AckEnqueued ==
  \E c \in Conns :
    /\ handler[c].pc = "select"
    /\ \E i \in 1..Len(con[c].requestsChan) : con[c].requestsChan[i].From = "ack"

\* C32: RegisterStream always eventually completes: a new stream waiting for
\* connectedMutex.Lock() eventually gets it and becomes p.connected, also
\* when SendRequest was called against an earlier connection whose relay
\* loop has returned.
C32_RegisterStreamCompletes ==
  \A c \in Conns : (handler[c].pc = "lock") ~> (connected = c)

\* a stream at Lock() while SendRequest, blocked at its send to a connection
\* whose handler has returned, holds the read lock
LockBehindBlockedSendRequest ==
  \E c \in Conns :
    /\ handler[c].pc = "lock"
    /\ sender.pc = "send"
    /\ handler[sender.target].pc = "returned"
    /\ Full(con[sender.target].requestsChan)
    /\ connectedMutex.r > 0

\* with no SendRequest at its send, RegisterStream completes
RegisterStreamCompletesUnlessSending ==
  \A c \in Conns : (handler[c].pc = "lock") ~> (connected = c \/ sender.pc = "send")

\* a reader goroutine that has ended, or was never started
ReaderDone(r) == r.pc \in {"off", "exit"}

\* C33: After a connection's handler has returned (the relay loop left on
\* any branch, or the dial failed), both of its readers eventually terminate:
\* neither stays at a send on downstreamError, upstreamError, requestsChan or
\* responsesChan.
C33_ReadersTerminate ==
  \A c \in Conns :
    (handler[c].pc = "returned") ~> (ReaderDone(downReader[c]) /\ ReaderDone(upReader[c]))

\* a returned handler whose downstream reader is at its send on downstreamError
ReaderBlockedOnError ==
  \E c \in Conns : handler[c].pc = "returned" /\ downReader[c].pc = "error"

\* a returned handler whose downstream reader is at a send on requestsChan
ReaderBlockedOnRequests ==
  \E c \in Conns :
    /\ handler[c].pc = "returned"
    /\ downReader[c].pc \in {"forward", "firstNDS"}
    /\ Full(con[c].requestsChan)

\* a reader whose error the relay loop received has ended
ReaderEndsWhenErrorTaken ==
  [][\A c \in Conns :
       /\ (downReader[c].pc = "error" /\ handler[c].pc = "select"
           /\ handler'[c] = OnDownstreamError(downReader[c].err))
            => ReaderDone(downReader'[c])
       /\ ReaderDone(downReader'[c]) /\ ~ReaderDone(downReader[c])
            => handler[c].pc = "select"]_vars

(***************************************************************************)
(* Properties of an entry's own name, and of the order of the build.       *)
(***************************************************************************)
\* the addresses of the kind a query type asks for, and those a reply carries
AddressesOf(ips, qtype) == IF qtype = TypeA THEN V4Of(ips) ELSE V6Of(ips)
AnswerAddresses(answer, qtype) ==
  [i \in DOMAIN answer |-> IF qtype = TypeA THEN answer[i].A ELSE answer[i].AAAA]

\* the query answered asked for the own name (host + ".") of the entry of
\* host in the name table of the table it loaded, with a type the entry has
\* addresses of
AskedOwnName(host) ==
  /\ Answered
  /\ qry.question.Qtype \in {TypeA, TypeAAAA}
  /\ host \in DOMAIN heap[qry.lp].nt
  /\ qry.question.Name = host \o <<".">>
  /\ AddressesOf(heap[qry.lp].nt[host].Ips, qry.question.Qtype) # <<>>

\* the reply is the entry's addresses of the queried type, as records of
\* that type, given by the agent itself
OwnAddressesReturned(host) ==
  /\ qry.tried = <<>>
  /\ qry.response.Rcode = RcodeSuccess
  /\ \A i \in DOMAIN qry.response.Answer :
       qry.response.Answer[i].Hdr.Rrtype = qry.question.Qtype
  /\ AnswerAddresses(qry.response.Answer, qry.question.Qtype) =
       AddressesOf(heap[qry.lp].nt[host].Ips, qry.question.Qtype)

\* C34: For every entry of the name table with an IPv4 address, an A query
\* for the entry's own name (host + ".") is answered with exactly the entry's
\* IPv4 addresses as A records, whatever the other entries and the search
\* list are; likewise AAAA and the IPv6 addresses.
C34_OwnNameGivesOwnAddresses ==
  \A host \in DOMAIN AllEntries : AskedOwnName(host) => OwnAddressesReturned(host)

\* the names the entry of host in name table nt gives records to: its
\* alternate hosts and their expansions by the first search namespace
NamesDerived(nt, host) ==
  LET alt == RuleAltHosts(dns, host, nt[host])
  IN alt \cup (IF dns.searchNamespaces = <<>> THEN {}
               ELSE {WithFirstSearch(h) : h \in alt})

\* the same for a lower-case host whose own name no other entry of the name
\* table gives records to
OwnNameUnlessShared ==
  \A host \in DOMAIN AllEntries :
    (/\ AskedOwnName(host)
     /\ host = ToLower(host)
     /\ \A other \in WithValidIP(heap[qry.lp].nt) \ {host} :
          host \o <<".">> \notin NamesDerived(heap[qry.lp].nt, other))
      => OwnAddressesReturned(host)

\* an entry's own name answered with a CNAME to another entry's name and
\* that entry's address
OwnNameShadowedByCname ==
  \E host \in DOMAIN AllEntries :
    /\ AskedOwnName(host)
    /\ Len(qry.response.Answer) = 2
    /\ qry.response.Answer[1].Hdr.Rrtype = TypeCNAME
    /\ qry.response.Answer[2].Hdr.Name # qry.question.Name

\* an entry's own name, queried as the name table spells it, not found
OwnNameForwarded ==
  \E host \in DOMAIN AllEntries : AskedOwnName(host) /\ qry.tried # <<>>

\* an entry's own name answered by the agent with another entry's addresses
\* under that very name
OwnNameOverwritten ==
  \E host \in DOMAIN AllEntries :
    /\ AskedOwnName(host)
    /\ qry.tried = <<>>
    /\ qry.response.Rcode = RcodeSuccess
    /\ \A i \in DOMAIN qry.response.Answer :
         qry.response.Answer[i].Hdr = RR_Header(qry.question.Name, qry.question.Qtype)
    /\ ~OwnAddressesReturned(host)

\* an own-name query answered with the entry's addresses while the name
\* table has a second entry with a valid IP
OwnNameAnsweredAmongOthers ==
  \E host \in DOMAIN AllEntries :
    /\ AskedOwnName(host)
    /\ OwnAddressesReturned(host)
    /\ Cardinality(WithValidIP(heap[qry.lp].nt)) = 2

\* the tables UpdateLookupTable can build from the name table of the stored
\* table, over the orders in which the name table can be ranged over
StoredBuilds ==
  BuiltTables(dns, EmptyLookupTable, heap[lookupTable].nt, DOMAIN heap[lookupTable].nt)

\* C35: The stored table (allHosts, name4, name6, cname) is determined by the
\* name table and the server's configuration: every order of iteration over
\* the entries builds the same table, also when two entries derive the same
\* alternate host or search-expanded name.
C35_BuildIsDeterministic ==
  lookupTable # 0 => StoredBuilds = {CurrentTable}

\* two entries of the stored name table, both with a valid IP, derive the
\* same alternate host
SharedAltHost ==
  \E h1, h2 \in WithValidIP(heap[lookupTable].nt) :
    /\ h1 # h2
    /\ RuleAltHosts(dns, h1, heap[lookupTable].nt[h1])
         \cap RuleAltHosts(dns, h2, heap[lookupTable].nt[h2]) # {}

\* the build is determined when no two entries derive the same alternate host
DeterministicUnlessShared ==
  (lookupTable # 0 /\ ~SharedAltHost) => StoredBuilds = {CurrentTable}

\* a stored table built from two entries whose names do not meet
TwoEntriesOneBuild ==
  /\ lookupTable # 0
  /\ Cardinality(WithValidIP(heap[lookupTable].nt)) = 2
  /\ ~SharedAltHost
  /\ DOMAIN CurrentTable.cname # {}

\* a stored table that another order of the same entries builds differently
OrderDecidesAddress ==
  /\ lookupTable # 0
  /\ \E T \in StoredBuilds :
       /\ T.allHosts = CurrentTable.allHosts
       /\ T.cname = CurrentTable.cname
       /\ T.name4 # CurrentTable.name4

(***************************************************************************)
(* Properties of the stop signal.                                          *)
(***************************************************************************)
\* C36: A connection's stopChan is closed at most once, whatever the
\* sequence of registrations: the close is called on a channel that is open,
\* by the RegisterStream of the connection registered next and by nothing
\* else, and a closed stopChan stays closed, so that no close (and no send:
\* nothing is ever sent on a stopChan) meets a closed channel.
C36_StopClosedOnce ==
  /\ [](\A c \in Conns : /\ con[c].closes <= 1
                         /\ con[c].stopClosed <=> con[c].closes = 1)
  /\ [][\A c \in Conns :
          /\ con'[c].closes # con[c].closes
               => /\ ~con[c].stopClosed
                  /\ connected = c
                  /\ \E d \in Conns \ {c} : handler[d].pc = "lock" /\ handler'[d].pc = "assign"
          /\ con[c].stopClosed => con'[c].stopClosed]_vars

\* three registrations, the stopChan of the first two closed
C36_TwoSuperseded ==
  /\ Len(registered) = 3
  /\ con[registered[1]].closes = 1
  /\ con[registered[2]].closes = 1
  /\ con[registered[3]].closes = 0

====
